---------------------------- MODULE Spec2Model ----------------------------
(***************************************************************************)
(* State-machine model of the HVAC record-keeping backend.                 *)
(*                                                                         *)
(* The state is the content of the relational tables (src/database.py,     *)
(* init_database) together with the requests that are in flight.  Every    *)
(* helper of src/database.py and every validator of src/validators.py that *)
(* touches the store opens its own connection and commits before it        *)
(* returns, so one call is one atomic step of the store; a handler of      *)
(* src/app.py is a sequence of such steps, and steps of different requests *)
(* interleave.  Inside record_inventory_usage and                          *)
(* adjust_inventory_quantity the SELECT runs outside a transaction         *)
(* (sqlite3 opens one only before the first UPDATE/INSERT), so the SELECT  *)
(* and the write are two steps.                                            *)
(***************************************************************************)
EXTENDS Integers, Sequences, FiniteSets, TLC

VARIABLES customers, invoices, appointments, inventory, inventory_usage,
          quotes, seq, req

vars == <<customers, invoices, appointments, inventory, inventory_usage,
          quotes, seq, req>>

\* ------------------------------------------------------------------ bounds
\* MaxQty: the largest quantity a request may name or produce.
\* MaxUsage: inventory_usage rows ever inserted.
MaxQty == 2
MaxUsage == 2

\* The request workers that may run at the same time.
Procs == {"w1", "w2"}

\* Text values: SQL NULL / Python None / JSON null, and a key the JSON body
\* does not hold.
NULL == "NULL"
Absent == "ABSENT"

\* Numeric JSON values are tagged, so that a number, null, a missing key and
\* text that is no number stay apart.
J(n) == [num |-> n]
JNull == [null |-> TRUE]
JAbsent == [absent |-> TRUE]
JText == [text |-> "abc"]
IsNum(v) == DOMAIN v = {"num"}

\* dict.get(key, default), for a text field and for a numeric one
Get(data, key, default) == IF data[key] = Absent THEN default ELSE data[key]
GetNum(data, key, default) == IF data[key] = JAbsent THEN default ELSE data[key]

NoData == [none |-> TRUE]
NoLoc == [none |-> TRUE]

\* ------------------------------------------------------------- requests
\* A worker's request: the handler (op), where it stands in it (pc), the id of
\* the URL, the JSON body (data), the handler's local variables (loc) and,
\* once it has returned, the response (resp).
NoResp == [status |-> 0, error |-> NULL]
Idle == [op |-> "idle", pc |-> "idle", id |-> 0, data |-> NoData, loc |-> NoLoc, resp |-> NoResp]

\* A worker takes a new request when it is not in the middle of one.
Free(p) == req[p].pc \in {"idle", "done"}

Begin(op, id, data) ==
    [op |-> op, pc |-> "start", id |-> id, data |-> data, loc |-> NoLoc, resp |-> NoResp]

\* The handler returns: jsonify(...), status.  What stays of the request is
\* which it was, the id it named and its response.
Return(p, r, resp) ==
    req' = [req EXCEPT ![p] = [r EXCEPT !.pc = "done", !.data = NoData,
                                        !.loc = NoLoc, !.resp = resp]]

\* The handler goes on to its next round trip with the locals it holds.
Goto(p, r, pc, loc) ==
    req' = [req EXCEPT ![p] = [r EXCEPT !.pc = pc, !.loc = loc]]

Resp(status, error) == [status |-> status, error |-> error]
Passed == Resp(0, NULL)

\* Python truthiness of a JSON value, as "not data[field]" reads it.
Falsy(v) == v \in {NULL, ""}
FalsyNum(v) == v \in {JNull, J(0)}

\* validators.validate_required_fields; the required fields are given as those
\* that hold text and those that hold numbers.
validate_required_fields(data, text_fields, num_fields) ==
    /\ \A f \in text_fields : data[f] # Absent /\ ~Falsy(data[f])
    /\ \A f \in num_fields : data[f] # JAbsent /\ ~FalsyNum(data[f])

\* validators.validate_numeric: float(value) >= min_value
validate_numeric(value, min_value, allow_none) ==
    IF value = JNull THEN [ok |-> allow_none, num |-> 0]
    ELSE IF ~IsNum(value) THEN [ok |-> FALSE, num |-> 0]
    ELSE [ok |-> value.num >= min_value, num |-> value.num]

\* ------------------------------------------------------------- inventory
\* The inventory rows the requests create and name.  Every inventory operation
\* addresses one row by its id and reads no other row (UNIQUE(sku) apart), so
\* the stock of one item is followed.
ItemIds == {1}
valid_categories == {"parts", "tools", "refrigerant", "supplies", "equipment", "other"}
valid_units == {"ea", "lbs", "oz", "gal", "ft", "box", "case", "roll", "set"}

\* str.strip().lower() on the raw strings the model draws
StripLower(s) ==
    CASE s = " Parts " -> "parts"
      [] s = "PARTS" -> "parts"
      [] s = "EA" -> "ea"
      [] s = " ea " -> "ea"
      [] OTHER -> s

\* str.lower() on the raw strings the model draws (no trimming)
Lower(s) ==
    CASE s = "EA" -> "ea"
      [] s = "PARTS" -> "parts"
      [] s = " Parts " -> " parts "
      [] OTHER -> s

\* validators.validate_category
validate_category(value) ==
    IF value = NULL \/ value = "" THEN [ok |-> FALSE, value |-> NULL]
    ELSE [ok |-> StripLower(value) \in valid_categories, value |-> StripLower(value)]

\* validators.validate_unit
validate_unit(unit) ==
    IF Falsy(unit) THEN [ok |-> FALSE, value |-> NULL]
    ELSE [ok |-> Lower(unit) \in valid_units, value |-> Lower(unit)]

\* The UNIQUE constraint on inventory.sku: NULLs never collide, '' does.
SkuTaken(sku, except_id) ==
    /\ sku # NULL
    /\ \E i \in DOMAIN inventory : i # except_id /\ inventory[i].sku = sku

\* database.get_inventory_by_id: the rows found (none or one)
get_inventory_by_id(item_id) == {inventory[i] : i \in DOMAIN inventory \cap {item_id}}

\* "if not result" on what a lookup returned, and the one row (or value) of a
\* result that is not empty
None(rows) == rows = {}
Row(rows) == CHOOSE r \in rows : TRUE

\* database.get_item_usage_history: the rows of one item, newest date first
UsageOf(inventory_id) ==
    {u \in DOMAIN inventory_usage : inventory_usage[u].inventory_id = inventory_id}

\* The rows with the given ids, in the order of the ids.
InIdOrder(table, ids) ==
    [k \in 1..Cardinality(ids) |->
        table[CHOOSE u \in ids : Cardinality({v \in ids : v < u}) = k - 1]]

get_item_usage_history(inventory_id) ==
    SortSeq(InIdOrder(inventory_usage, UsageOf(inventory_id)),
            LAMBDA a, b : a.date_used > b.date_used)

\* The rows an operation keeps when it deletes row id of a table.
Without(table, id) == [i \in DOMAIN table \ {id} |-> table[i]]

\* The table with row id inserted or replaced.
With(table, id, row) == [i \in DOMAIN table \cup {id} |-> IF i = id THEN row ELSE table[i]]

\* Requests of one kind that have been taken and have not returned.
InFlight(op) == Cardinality({p \in Procs : req[p].op = op /\ ~Free(p)})

\* validators.validate_date: YYYY-MM-DD, then a calendar check (datetime.strptime).
\* A date is the number YYYYMMDD; 0 stands for a missing or empty date.
DaysIn(y, m) ==
    IF m \in {4, 6, 9, 11} THEN 30
    ELSE IF m # 2 THEN 31
    ELSE IF (y % 4 = 0 /\ y % 100 # 0) \/ y % 400 = 0 THEN 29 ELSE 28

validate_date(d) ==
    /\ d # 0
    /\ LET y == d \div 10000
           m == (d \div 100) % 100
           day == d % 100
       IN  /\ y >= 1
           /\ m \in 1..12
           /\ day \in 1..DaysIn(y, m)

\* What an INSERT or UPDATE reports when a UNIQUE constraint refuses it
\* (sqlite3.IntegrityError); no row id and no row count is negative.
IntegrityError == -1

\* =================================================================
\* Inventory (src/database.py 508-618, src/app.py 1543-1743)
\* =================================================================

\* The bodies POST and PUT /api/inventory are given.  cost_per_unit,
\* low_stock_threshold, supplier and notes are stored as given and read by no
\* other operation; the model leaves them out of the row.
ItemData ==
    [name : {"Filter"}, category : {" Parts "}, unit : {"EA"},
     sku : {NULL}, quantity : {J(n) : n \in -1..MaxQty} \cup {JAbsent}]

\* The row POST/PUT build from a body that passed validation.
ItemRow(data, category, unit, quantity) ==
    [name |-> data.name, category |-> category, sku |-> Get(data, "sku", ""),
     quantity |-> quantity, unit |-> unit]

\* The validation both handlers run before the write.
ItemValidation(data, default_unit) ==
    LET cat == validate_category(StripLower(IF Falsy(data.category) THEN "" ELSE data.category))
        unit == validate_unit(Get(data, "unit", default_unit))
        qty == validate_numeric(GetNum(data, "quantity", J(0)), 0, TRUE)
    IN  IF ~cat.ok THEN Resp(400, "Category must be one of")
        ELSE IF ~unit.ok THEN Resp(400, "Unit must be one of")
        ELSE IF ~qty.ok THEN Resp(400, "Quantity must be at least 0")
        ELSE Passed

ValidItemRow(data, default_unit) ==
    ItemRow(data,
            validate_category(StripLower(data.category)).value,
            validate_unit(Get(data, "unit", default_unit)).value,
            validate_numeric(GetNum(data, "quantity", J(0)), 0, TRUE).num)

\* database.create_inventory_item: the INSERT; out is the new id, or
\* IntegrityError when UNIQUE(sku) refuses the row.
create_inventory_item(row, out) ==
    IF SkuTaken(row.sku, 0)
    THEN /\ out = IntegrityError
         /\ UNCHANGED <<inventory, seq>>
    ELSE /\ out = seq.inventory + 1
         /\ inventory' = With(inventory, out, row)
         /\ seq' = [seq EXCEPT !.inventory = out]

\* database.update_inventory_item: the UPDATE; out is rows_affected (0 or 1),
\* or IntegrityError.
update_inventory_item(item_id, row, out) ==
    IF item_id \notin DOMAIN inventory
    THEN /\ out = 0
         /\ UNCHANGED inventory
    ELSE IF SkuTaken(row.sku, item_id)
    THEN /\ out = IntegrityError
         /\ UNCHANGED inventory
    ELSE /\ out = 1
         /\ inventory' = With(inventory, item_id, row)

\* database.delete_inventory_item
delete_inventory_item(item_id) ==
    inventory' = Without(inventory, item_id)

\* adjust_inventory_quantity without its "new_quantity < 0" refusal
adjust_inventory_quantity_select_unchecked(item_id, quantity_change) ==
    LET result == get_inventory_by_id(item_id)
    IN  IF None(result) THEN {}
        ELSE {Row(result).quantity + quantity_change}

\* database.adjust_inventory_quantity, lines 582-595: the SELECT and the
\* checks; the new quantity to write, or nothing for "return False".
adjust_inventory_quantity_select(item_id, quantity_change) ==
    LET result == get_inventory_by_id(item_id)
    IN  IF None(result) THEN {}
        ELSE IF Row(result).quantity + quantity_change < 0 THEN {}
        ELSE {Row(result).quantity + quantity_change}

\* database.adjust_inventory_quantity, lines 597-605: the UPDATE and commit
adjust_inventory_quantity_update(item_id, new_quantity) ==
    inventory' = IF item_id \in DOMAIN inventory
                 THEN [inventory EXCEPT ![item_id].quantity = new_quantity]
                 ELSE inventory

\* ---- POST /api/inventory
api_create_inventory_item(p, data, item_ids) ==
    /\ Free(p)
    /\ seq.inventory + 1 \in item_ids
    /\ LET r == Begin("create_item", 0, data)
           bad == ItemValidation(data, "ea")
       IN  IF ~validate_required_fields(data, {"name", "category"}, {})
           THEN Return(p, r, Resp(400, "Missing required fields")) /\ UNCHANGED <<inventory, seq>>
           ELSE IF bad # Passed
           THEN Return(p, r, bad) /\ UNCHANGED <<inventory, seq>>
           ELSE \E out \in item_ids \cup {IntegrityError} :
                   /\ create_inventory_item(ValidItemRow(data, "ea"), out)
                   /\ IF out = IntegrityError
                      THEN Return(p, r, Resp(409, "Database error (SKU may already exist)"))
                      ELSE Return(p, r, Resp(201, NULL))
    /\ UNCHANGED <<customers, invoices, appointments, inventory_usage, quotes>>

\* ---- PUT /api/inventory/<id>: get_inventory_by_id
api_update_inventory_item(p, item_id, data) ==
    /\ Free(p)
    /\ LET r == Begin("update_item", item_id, data)
       IN  IF None(get_inventory_by_id(item_id))
           THEN Return(p, r, Resp(404, "Inventory item not found"))
           ELSE Goto(p, r, "update", NoLoc)
    /\ UNCHANGED <<customers, invoices, appointments, inventory, inventory_usage, seq, quotes>>

\* ---- PUT /api/inventory/<id>: the body is validated, then update_inventory_item
api_update_inventory_item_write(p) ==
    /\ req[p].op = "update_item" /\ req[p].pc = "update"
    /\ LET data == req[p].data
           bad == ItemValidation(data, NULL)
       IN  IF ~validate_required_fields(data, {"name", "category", "unit"}, {})
           THEN /\ Return(p, req[p], Resp(400, "Missing required fields"))
                /\ UNCHANGED inventory
           ELSE IF bad # Passed
           THEN /\ Return(p, req[p], bad)
                /\ UNCHANGED inventory
           ELSE \E out \in {0, 1, IntegrityError} :
                   /\ update_inventory_item(req[p].id, ValidItemRow(data, NULL), out)
                   /\ IF out = IntegrityError
                      THEN Return(p, req[p], Resp(409, "Database error (SKU may already exist)"))
                      ELSE IF out > 0
                      THEN Return(p, req[p], Resp(200, NULL))
                      ELSE Return(p, req[p], Resp(500, "Failed to update item"))
    /\ UNCHANGED <<customers, invoices, appointments, inventory_usage, seq, quotes>>

\* ---- DELETE /api/inventory/<id>: the lookup
api_delete_inventory_item(p, item_id) ==
    /\ Free(p)
    /\ LET r == Begin("delete_item", item_id, NoData)
       IN  IF None(get_inventory_by_id(item_id))
           THEN Return(p, r, Resp(404, "Inventory item not found"))
           ELSE Goto(p, r, "delete", NoLoc)
    /\ UNCHANGED <<customers, invoices, appointments, inventory, inventory_usage, seq, quotes>>

\* ---- DELETE /api/inventory/<id>: the write
api_delete_inventory_item_write(p) ==
    /\ req[p].op = "delete_item" /\ req[p].pc = "delete"
    /\ delete_inventory_item(req[p].id)
    /\ Return(p, req[p], Resp(200, NULL))
    /\ UNCHANGED <<customers, invoices, appointments, inventory_usage, seq, quotes>>

\* ---- PUT /api/inventory/<id>/adjust: the lookup and the body checks
AdjustData == [quantity_change : {J(n) : n \in (-MaxQty)..MaxQty} \cup {JAbsent, JText}]

api_adjust_inventory(p, item_id, data) ==
    /\ Free(p)
    /\ LET r == Begin("adjust", item_id, data)
           item == get_inventory_by_id(item_id)
       IN  IF None(item)
           THEN Return(p, r, Resp(404, "Inventory item not found"))
           ELSE IF GetNum(data, "quantity_change", JNull) = JNull
           THEN Return(p, r, Resp(400, "quantity_change is required"))
           ELSE IF ~IsNum(data.quantity_change)
           THEN Return(p, r, Resp(400, "quantity_change must be an integer"))
           ELSE Goto(p, r, "adjust_select", NoLoc)
    /\ UNCHANGED <<customers, invoices, appointments, inventory, inventory_usage, seq, quotes>>

\* ---- adjust: adjust_inventory_quantity reads and checks
api_adjust_inventory_select(p) ==
    /\ req[p].op = "adjust" /\ req[p].pc = "adjust_select"
    /\ LET new_quantity == adjust_inventory_quantity_select(req[p].id, req[p].data.quantity_change.num)
       IN  IF new_quantity = {}
           THEN Return(p, req[p], Resp(400, "Adjustment would result in negative inventory"))
           ELSE /\ Row(new_quantity) <= MaxQty
                /\ Goto(p, req[p], "adjust_update", [new_quantity |-> Row(new_quantity)])
    /\ UNCHANGED <<customers, invoices, appointments, inventory, inventory_usage, seq, quotes>>

\* ---- adjust: adjust_inventory_quantity writes
api_adjust_inventory_update(p) ==
    /\ req[p].op = "adjust" /\ req[p].pc = "adjust_update"
    /\ adjust_inventory_quantity_update(req[p].id, req[p].loc.new_quantity)
    /\ Goto(p, req[p], "adjust_reread", NoLoc)
    /\ UNCHANGED <<customers, invoices, appointments, inventory_usage, seq, quotes>>

\* ---- adjust: the handler reads the item again for its response
api_adjust_inventory_reread(p) ==
    /\ req[p].op = "adjust" /\ req[p].pc = "adjust_reread"
    /\ LET updated_item == get_inventory_by_id(req[p].id)
       IN  IF None(updated_item)
           THEN Return(p, req[p], Resp(500, "Failed to adjust inventory"))
           ELSE Return(p, req[p], Resp(200, NULL))
    /\ UNCHANGED <<customers, invoices, appointments, inventory, inventory_usage, seq, quotes>>

\* =================================================================
\* Inventory usage (src/database.py 686-779, src/app.py 1858-1908)
\* =================================================================

\* validators.validate_inventory_id: the rows found
validate_inventory_id(inventory_id) == get_inventory_by_id(inventory_id)

\* record_inventory_usage without its "quantity < quantity_used" refusal
record_inventory_usage_select_unchecked(inventory_id, quantity_used) ==
    LET result == get_inventory_by_id(inventory_id)
    IN  IF None(result) THEN {}
        ELSE {Row(result).quantity - quantity_used}

\* database.record_inventory_usage, lines 692-700: the SELECT and the check;
\* the new quantity to write, or nothing for "return None".
record_inventory_usage_select(inventory_id, quantity_used) ==
    LET result == get_inventory_by_id(inventory_id)
    IN  IF None(result) THEN {}
        ELSE IF Row(result).quantity < quantity_used THEN {}
        ELSE {Row(result).quantity - quantity_used}

\* record_inventory_usage logging the usage without taking it out of stock
record_inventory_usage_write_log_only(inventory_id, new_quantity, quantity_used, date_used) ==
    /\ inventory' = inventory
    /\ inventory_usage' = With(inventory_usage, seq.inventory_usage + 1,
            [id |-> seq.inventory_usage + 1, inventory_id |-> inventory_id,
             quantity_used |-> quantity_used, date_used |-> date_used])
    /\ seq' = [seq EXCEPT !.inventory_usage = seq.inventory_usage + 1]

\* record_inventory_usage committing its UPDATE before the INSERT is made:
\* the row of the usage comes with a later commit
record_inventory_usage_write_decrement_only(inventory_id, new_quantity, quantity_used, date_used) ==
    /\ inventory' = IF inventory_id \in DOMAIN inventory
                    THEN [inventory EXCEPT ![inventory_id].quantity = new_quantity]
                    ELSE inventory
    /\ UNCHANGED <<inventory_usage, seq>>

\* database.record_inventory_usage, lines 701-717: the UPDATE, the INSERT and
\* the commit, one transaction.  appointment_id, invoice_id and notes are
\* stored as given and are left out of the row.
record_inventory_usage_write(inventory_id, new_quantity, quantity_used, date_used) ==
    /\ inventory' = IF inventory_id \in DOMAIN inventory
                    THEN [inventory EXCEPT ![inventory_id].quantity = new_quantity]
                    ELSE inventory
    /\ inventory_usage' = With(inventory_usage, seq.inventory_usage + 1,
            [id |-> seq.inventory_usage + 1, inventory_id |-> inventory_id,
             quantity_used |-> quantity_used, date_used |-> date_used])
    /\ seq' = [seq EXCEPT !.inventory_usage = seq.inventory_usage + 1]

\* ---- POST /api/inventory/usage: the validation, with the item lookup
api_record_usage(p, data) ==
    /\ Free(p)
    /\ seq.inventory_usage + InFlight("record") < MaxUsage
    /\ LET r == Begin("record", GetNum(data, "inventory_id", J(0)).num, data)
       IN  IF \/ ~validate_required_fields(data, {}, {"inventory_id", "quantity_used"})
              \/ data.date_used = 0
           THEN Return(p, r, Resp(400, "Missing required fields"))
           ELSE IF None(validate_inventory_id(data.inventory_id.num))
           THEN Return(p, r, Resp(404, "Inventory item not found"))
           ELSE IF ~validate_numeric(data.quantity_used, 1, FALSE).ok
           THEN Return(p, r, Resp(400, "Quantity used must be at least 1"))
           ELSE IF ~validate_date(data.date_used)
           THEN Return(p, r, Resp(400, "Invalid date"))
           ELSE Goto(p, r, "record_select", NoLoc)
    /\ UNCHANGED <<customers, invoices, appointments, inventory, inventory_usage, seq, quotes>>

\* ---- record: record_inventory_usage reads and checks
api_record_usage_select(p) ==
    /\ req[p].op = "record" /\ req[p].pc = "record_select"
    /\ LET new_quantity == record_inventory_usage_select(req[p].id, req[p].data.quantity_used.num)
       IN  IF new_quantity = {}
           THEN Return(p, req[p], Resp(400, "Insufficient inventory quantity"))
           ELSE Goto(p, req[p], "record_write", [new_quantity |-> Row(new_quantity)])
    /\ UNCHANGED <<customers, invoices, appointments, inventory, inventory_usage, seq, quotes>>

\* ---- record: record_inventory_usage writes and commits
api_record_usage_write(p) ==
    /\ req[p].op = "record" /\ req[p].pc = "record_write"
    /\ record_inventory_usage_write(req[p].id, req[p].loc.new_quantity,
                                    req[p].data.quantity_used.num, req[p].data.date_used)
    /\ Return(p, req[p], Resp(201, NULL))
    /\ UNCHANGED <<customers, invoices, appointments, quotes>>

\* =================================================================
\* The store after init_database, and the specifications
\* =================================================================
Empty == [i \in {} |-> NULL]

Init ==
    /\ customers = Empty
    /\ invoices = Empty
    /\ appointments = Empty
    /\ inventory = Empty
    /\ inventory_usage = Empty
    /\ quotes = Empty
    /\ seq = [customers |-> 0, invoices |-> 0, appointments |-> 0,
              inventory |-> 0, inventory_usage |-> 0, quotes |-> 0]
    /\ req = [p \in Procs |-> Idle]

\* The bodies POST /api/inventory/usage is given, with the dates they name and
\* one that is no date.
RecordData(dates) ==
    [inventory_id : {J(i) : i \in ItemIds}, quantity_used : {J(n) : n \in 0..MaxQty},
     date_used : dates]
    \cup [inventory_id : {J(1)}, quantity_used : {J(1)}, date_used : {20251301}]

\* One step of worker p on the inventory and its usage log.
StockStep(p, dates) ==
    \/ \E data \in ItemData : api_create_inventory_item(p, data, ItemIds)
    \/ \E item_id \in ItemIds, data \in ItemData : api_update_inventory_item(p, item_id, data)
    \/ api_update_inventory_item_write(p)
    \/ \E item_id \in ItemIds, data \in AdjustData : api_adjust_inventory(p, item_id, data)
    \/ api_adjust_inventory_select(p)
    \/ api_adjust_inventory_update(p)
    \/ api_adjust_inventory_reread(p)
    \/ \E data \in RecordData(dates) : api_record_usage(p, data)
    \/ api_record_usage_select(p)
    \/ api_record_usage_write(p)

NextStock == \E p \in Procs : StockStep(p, {20250115})
SpecStock == Init /\ [][NextStock]_vars

\* The same requests, one at a time: a single worker serves them all.  The
\* usages bear two dates, for the order of the history.
NextStockSolo == StockStep("w1", {20250115, 20250201})
SpecStockSolo == Init /\ [][NextStockSolo]_vars

\* Worker p takes a step of the request it is serving.
Steps(p) == req'[p] # req[p]

\* -----------------------------------------------------------------
\* C1.  Whatever create, update, adjustQuantity and record requests have run,
\* in whatever interleaving, no inventory row holds a negative quantity; this
\* includes the states right after a rejected adjustment or record.
C1_QuantityNeverNegative ==
    \A i \in DOMAIN inventory : inventory[i].quantity >= 0

\* Both rejections have just been answered and the item is in store.
C1_Witness ==
    /\ \E p \in Procs : /\ req[p].op = "adjust" /\ req[p].pc = "done"
                         /\ req[p].resp.error = "Adjustment would result in negative inventory"
                         /\ req[p].id \in DOMAIN inventory
    /\ \E p \in Procs : /\ req[p].op = "record" /\ req[p].pc = "done"
                         /\ req[p].resp.error = "Insufficient inventory quantity"
                         /\ req[p].id \in DOMAIN inventory

\* -----------------------------------------------------------------
\* C2.  When record_inventory_usage reads an existing item whose quantity is
\* less than quantity_used, the request is answered "Insufficient inventory
\* quantity", and neither the inventory nor the usage log changes.
RecordCalledShort(p) ==
    /\ req[p].op = "record" /\ req[p].pc = "record_select"
    /\ req[p].id \in DOMAIN inventory
    /\ inventory[req[p].id].quantity < req[p].data.quantity_used.num

C2_InsufficientStockRejected ==
    [][\A p \in Procs :
          RecordCalledShort(p) /\ Steps(p) =>
              /\ req'[p].pc = "done"
              /\ req'[p].resp = Resp(400, "Insufficient inventory quantity")
              /\ inventory' = inventory
              /\ inventory_usage' = inventory_usage]_vars

\* A record request was refused for lack of stock; its item is in store (row
\* ids are never issued twice, so it was there when the request read it).
C2_Witness ==
    \E p \in Procs : /\ req[p].op = "record" /\ req[p].pc = "done"
                      /\ req[p].resp = Resp(400, "Insufficient inventory quantity")
                      /\ req[p].id \in DOMAIN inventory
                      /\ UsageOf(req[p].id) = {}

\* -----------------------------------------------------------------
\* C3.  With one request at a time: record_inventory_usage called with q >= 1
\* on an item holding at least q goes on to write, answers 201, leaves the
\* item with its previous quantity minus q, and the by-item history then
\* holds exactly one more row, the new one, with quantity_used = q.
RecordCalledStocked(p) ==
    /\ req[p].op = "record" /\ req[p].pc = "record_select"
    /\ req[p].id \in DOMAIN inventory
    /\ req[p].data.quantity_used.num >= 1
    /\ inventory[req[p].id].quantity >= req[p].data.quantity_used.num

NewUsageRows(inventory_id) ==
    {k \in 1..Len(get_item_usage_history(inventory_id)') :
        get_item_usage_history(inventory_id)'[k].id \notin DOMAIN inventory_usage}

C3_RecordRoundTrip ==
    [][\A p \in Procs :
          /\ RecordCalledStocked(p) /\ Steps(p) => req'[p].pc = "record_write"
          /\ req[p].op = "record" /\ req[p].pc = "record_write" /\ Steps(p) =>
                /\ req'[p].pc = "done" /\ req'[p].resp.status = 201
                /\ req[p].id \in DOMAIN inventory
                /\ inventory'[req[p].id].quantity =
                       inventory[req[p].id].quantity - req[p].data.quantity_used.num
                /\ Len(get_item_usage_history(req[p].id)') =
                       Len(get_item_usage_history(req[p].id)) + 1
                /\ Cardinality(NewUsageRows(req[p].id)) = 1
                /\ \A k \in NewUsageRows(req[p].id) :
                       LET row == get_item_usage_history(req[p].id)'[k]
                       IN  /\ row.quantity_used = req[p].data.quantity_used.num
                           /\ row.inventory_id = req[p].id]_vars

\* A usage has been recorded after an earlier one of a later date: the history
\* holds both, the item holds what is left.
C3_Witness ==
    /\ req["w1"].op = "record" /\ req["w1"].pc = "done" /\ req["w1"].resp.status = 201
    /\ req["w1"].id \in DOMAIN inventory
    /\ Len(get_item_usage_history(req["w1"].id)) = 2
    /\ get_item_usage_history(req["w1"].id)[1].id < get_item_usage_history(req["w1"].id)[2].id
    /\ get_item_usage_history(req["w1"].id)[1].date_used >
           get_item_usage_history(req["w1"].id)[2].date_used


\* =================================================================
\* Customers (src/database.py 112-179, src/app.py 300-402)
\* =================================================================
MaxCustomers == 1
MaxInvoices == 2

\* A phone number is the sequence of its characters; <<>> is the empty
\* string, and stands for a missing phone too ("not data[field]" and
\* "not phone" treat the two alike).
IsDigit(c) == c \in {"0", "1", "2", "3", "4", "5", "6", "7", "8", "9"}

\* re.sub(r'[^\d]', '', phone)
Cleaned(phone) == SelectSeq(phone, IsDigit)

\* The Python slice s[first - 1 : last]: what there is of those positions
Slice(s, first, last) ==
    [i \in 1..((IF last < Len(s) THEN last ELSE Len(s)) - first + 1) |-> s[first + i - 1]]

\* f"({cleaned[:3]}) {cleaned[3:6]}-{cleaned[6:]}"
Formatted(cleaned) ==
    <<"(">> \o Slice(cleaned, 1, 3) \o <<")", " ">> \o Slice(cleaned, 4, 6)
            \o <<"-">> \o Slice(cleaned, 7, Len(cleaned))

\* validate_phone without the length check
validate_phone_any_length(phone) ==
    IF phone = <<>> THEN [ok |-> FALSE, phone |-> <<>>]
    ELSE [ok |-> TRUE, phone |-> Formatted(Cleaned(phone))]

\* validators.validate_phone
validate_phone(phone) ==
    IF phone = <<>> THEN [ok |-> FALSE, phone |-> <<>>]
    ELSE IF Len(Cleaned(phone)) # 10 THEN [ok |-> FALSE, phone |-> <<>>]
    ELSE [ok |-> TRUE, phone |-> Formatted(Cleaned(phone))]

\* The bodies POST /api/customers is given: with and without a name, with
\* the phone 555-123-4567 and with 12345.
CustomerData ==
    [name : {"Jane", Absent},
     phone : {<<"5", "5", "5", "-", "1", "2", "3", "-", "4", "5", "6", "7">>,
              <<"1", "2", "3", "4", "5">>}]

\* str.strip() on the raw names the model draws
Strip(s) ==
    CASE s = "   " -> ""
      [] s = " Jane " -> "Jane"
      [] OTHER -> s

add_customer(name, phone) ==
    /\ customers' = With(customers, seq.customers + 1,
                         [id |-> seq.customers + 1, name |-> name, phone |-> phone])
    /\ seq' = [seq EXCEPT !.customers = seq.customers + 1]

get_customer_by_id(customer_id) ==
    {customers[c] : c \in DOMAIN customers \cap {customer_id}}

delete_customer(customer_id) == customers' = Without(customers, customer_id)

\* check_customer_has_invoices counting on the invoices' own ids
check_customer_has_invoices_by_id(customer_id) ==
    Cardinality({i \in DOMAIN invoices : invoices[i].id = customer_id}) > 0

check_customer_has_invoices(customer_id) ==
    Cardinality({i \in DOMAIN invoices : invoices[i].customer_id = customer_id}) > 0

\* ---- POST /api/customers
api_create_customer(p, data) ==
    /\ Free(p)
    /\ seq.customers < MaxCustomers
    /\ LET r == Begin("create_customer", 0, data)
       IN  IF ~validate_required_fields(data, {"name"}, {}) \/ data.phone = <<>>
           THEN /\ Return(p, r, Resp(400, "Missing required fields"))
                /\ UNCHANGED <<customers, seq>>
           ELSE IF ~validate_phone(data.phone).ok
           THEN /\ Return(p, r, Resp(400, "Phone must be 10 digits"))
                /\ UNCHANGED <<customers, seq>>
           ELSE /\ add_customer(Strip(data.name), validate_phone(data.phone).phone)
                /\ Return(p, r, Resp(201, NULL))
    /\ UNCHANGED <<invoices, appointments, inventory, inventory_usage, quotes>>

\* ---- DELETE /api/customers/<id>: get_customer_by_id
api_delete_customer(p, customer_id) ==
    /\ Free(p)
    /\ LET r == Begin("delete_customer", customer_id, NoData)
       IN  IF None(get_customer_by_id(customer_id))
           THEN Return(p, r, Resp(404, "Customer not found"))
           ELSE Goto(p, r, "delete_customer_check", NoLoc)
    /\ UNCHANGED <<customers, invoices, appointments, inventory, inventory_usage, seq, quotes>>

\* ---- delete customer: check_customer_has_invoices
api_delete_customer_check(p) ==
    /\ req[p].op = "delete_customer" /\ req[p].pc = "delete_customer_check"
    /\ IF check_customer_has_invoices(req[p].id)
       THEN Return(p, req[p], Resp(409, "Cannot delete customer with existing invoices"))
       ELSE Goto(p, req[p], "delete_customer_delete", NoLoc)
    /\ UNCHANGED <<customers, invoices, appointments, inventory, inventory_usage, seq, quotes>>

\* ---- delete customer: delete_customer
api_delete_customer_delete(p) ==
    /\ req[p].op = "delete_customer" /\ req[p].pc = "delete_customer_delete"
    /\ delete_customer(req[p].id)
    /\ Return(p, req[p], Resp(200, NULL))
    /\ UNCHANGED <<invoices, appointments, inventory, inventory_usage, seq, quotes>>


\* =================================================================
\* Invoices (src/database.py 208-305, src/validators.py 42-123,
\* src/app.py 512-739).  Amounts are in cents and tax rates in hundredths
\* (0.08 is 8), so that sums and products are exact.
\* =================================================================
InvoiceIds == 1..MaxInvoices
CustomerIds == 1..(MaxCustomers + 1)
InvoiceNumbers == {"INV-100", "INV-101"}

\* The costs a body carries: all three, or the labor cost alone.
Costs ==
    {[labor_cost |-> J(10005), materials_cost |-> J(5000), tax_rate |-> J(10)],
     [labor_cost |-> J(10005), materials_cost |-> JAbsent, tax_rate |-> JAbsent]}

\* A labor cost that is no number.
BadCosts == {[labor_cost |-> JText, materials_cost |-> J(5000), tax_rate |-> J(10)]}

InvoiceBody(customer_ids, invoice_numbers, technicians, costs) ==
    {[customer_id |-> c, invoice_number |-> n, date |-> "2025-01-15", technician |-> t,
      work_performed |-> "Tune-up", labor_cost |-> k.labor_cost,
      materials_cost |-> k.materials_cost, tax_rate |-> k.tax_rate] :
        c \in customer_ids, n \in invoice_numbers, t \in technicians, k \in costs}

\* The bodies POST /api/invoices and PUT /api/invoices/<id> are given; one of
\* each lacks a required field, one carries a cost that is no number.
CreateInvoiceData ==
    InvoiceBody({J(c) : c \in CustomerIds}, InvoiceNumbers, {"Sam"}, Costs)
    \cup InvoiceBody({J(1)}, {"INV-100"}, {Absent}, Costs)
    \cup InvoiceBody({J(1)}, {"INV-101"}, {"Sam"}, BadCosts)
UpdateInvoiceData ==
    InvoiceBody({JAbsent}, InvoiceNumbers, {"Sam"}, Costs)
    \cup InvoiceBody({JAbsent}, {"INV-100"}, {Absent}, Costs)
    \cup InvoiceBody({JAbsent}, {"INV-101"}, {"Sam"}, BadCosts)

\* validate_invoice_number that forgets to leave the invoice itself out
validate_invoice_number_including_self(invoice_number, exclude_id) ==
    IF Falsy(invoice_number) THEN FALSE
    ELSE {i \in DOMAIN invoices : invoices[i].invoice_number = invoice_number} = {}

\* validators.validate_invoice_number: the SELECT; exclude_id = 0 is the
\* default None ("if exclude_id:").  TRUE when the number is free.
validate_invoice_number(invoice_number, exclude_id) ==
    IF Falsy(invoice_number) THEN FALSE
    ELSE IF exclude_id # 0
    THEN {i \in DOMAIN invoices : invoices[i].invoice_number = invoice_number
                                   /\ i # exclude_id} = {}
    ELSE {i \in DOMAIN invoices : invoices[i].invoice_number = invoice_number} = {}

\* validators.validate_customer_id: the rows found
validate_customer_id(customer_id) ==
    IF FalsyNum(customer_id) \/ ~IsNum(customer_id) THEN {}
    ELSE {customers[c] : c \in DOMAIN customers \cap {customer_id.num}}

\* UNIQUE(invoice_number) of the invoices table, src/database.py line 35
InvoiceNumberTaken(invoice_number, except_id) ==
    \E i \in DOMAIN invoices \ {except_id} : invoices[i].invoice_number = invoice_number

\* database.create_invoice without the UNIQUE constraint behind it
create_invoice_unconstrained(customer_id, invoice_number, labor_cost, out) ==
    /\ out = seq.invoices + 1
    /\ invoices' = With(invoices, out,
          [id |-> out, invoice_number |-> invoice_number, customer_id |-> customer_id,
           labor_cost |-> labor_cost, materials_cost |-> 0, tax_rate |-> 8,
           status |-> "draft"])
    /\ seq' = [seq EXCEPT !.invoices = out]

\* database.create_invoice: the INSERT and the commit; out is the new id, or
\* IntegrityError when UNIQUE(invoice_number) refuses the row.  The function
\* sets materials_cost = 0 and tax_rate = 0.08 itself (lines 214-215) and has
\* no parameter for either.
create_invoice(customer_id, invoice_number, labor_cost, out) ==
    IF InvoiceNumberTaken(invoice_number, 0)
    THEN /\ out = IntegrityError
         /\ UNCHANGED <<invoices, seq>>
    ELSE /\ out = seq.invoices + 1
         /\ invoices' = With(invoices, out,
               [id |-> out, invoice_number |-> invoice_number, customer_id |-> customer_id,
                labor_cost |-> labor_cost, materials_cost |-> 0, tax_rate |-> 8,
                status |-> "draft"])
         /\ seq' = [seq EXCEPT !.invoices = out]

\* database.get_invoice_by_id: invoices JOIN customers, so an invoice whose
\* customer row is gone is not found.
get_invoice_by_id(invoice_id) ==
    {invoices[i] : i \in {j \in DOMAIN invoices \cap {invoice_id} :
                              invoices[j].customer_id \in DOMAIN customers}}

\* update_invoice that reports a row when the UPDATE matched none
update_invoice_always_reporting(invoice_id, invoice_number, labor_cost, materials_cost, tax_rate, out) ==
    IF invoice_id \notin DOMAIN invoices
    THEN /\ out = 1
         /\ UNCHANGED invoices
    ELSE IF InvoiceNumberTaken(invoice_number, invoice_id)
    THEN /\ out = IntegrityError
         /\ UNCHANGED invoices
    ELSE /\ out = 1
         /\ invoices' = [invoices EXCEPT ![invoice_id] =
               [@ EXCEPT !.invoice_number = invoice_number, !.labor_cost = labor_cost,
                         !.materials_cost = materials_cost, !.tax_rate = tax_rate]]

\* database.update_invoice: the UPDATE and the commit; out is the row count, or
\* IntegrityError.
update_invoice(invoice_id, invoice_number, labor_cost, materials_cost, tax_rate, out) ==
    IF invoice_id \notin DOMAIN invoices
    THEN /\ out = 0
         /\ UNCHANGED invoices
    ELSE IF InvoiceNumberTaken(invoice_number, invoice_id)
    THEN /\ out = IntegrityError
         /\ UNCHANGED invoices
    ELSE /\ out = 1
         /\ invoices' = [invoices EXCEPT ![invoice_id] =
               [@ EXCEPT !.invoice_number = invoice_number, !.labor_cost = labor_cost,
                         !.materials_cost = materials_cost, !.tax_rate = tax_rate]]

delete_invoice(invoice_id) == invoices' = Without(invoices, invoice_id)


\* What a read derives from the stored costs: subtotal = labor + materials,
\* tax = subtotal x tax_rate, each rounded to two decimals (whole cents) and
\* added up.  A product of cents and hundredths is in hundredths of a cent.
subtotal(invoice) == invoice.labor_cost + invoice.materials_cost
tax(invoice) == subtotal(invoice) * invoice.tax_rate

\* round(x, 2) of an amount in hundredths of a cent, in cents; a tie goes to
\* the even cent.
Round2(x) ==
    LET down == x \div 100
    IN  IF x % 100 > 50 \/ (x % 100 = 50 /\ down % 2 = 1) THEN down + 1 ELSE down

total(invoice) == subtotal(invoice) + Round2(tax(invoice))

\* ---- GET /api/invoices/<id>
api_get_invoice(p, invoice_id) ==
    /\ Free(p)
    /\ LET r == Begin("get_invoice", invoice_id, NoData)
           invoice == get_invoice_by_id(invoice_id)
       IN  IF None(invoice)
           THEN Return(p, r, Resp(404, "Invoice not found"))
           ELSE Return(p, r, [status |-> 200, error |-> NULL,
                              costs |-> [labor |-> Row(invoice).labor_cost,
                                         materials |-> Row(invoice).materials_cost,
                                         subtotal |-> subtotal(Row(invoice)),
                                         tax_rate |-> Row(invoice).tax_rate,
                                         tax |-> Round2(tax(Row(invoice))),
                                         total |-> total(Row(invoice))]])
    /\ UNCHANGED <<customers, invoices, appointments, inventory, inventory_usage, seq, quotes>>

\* The three validate_numeric calls of the create and update handlers, with
\* the defaults of data.get: what is written, or nothing when one of them fails.
ValidCosts(data) ==
    LET labor == validate_numeric(GetNum(data, "labor_cost", J(0)), 0, TRUE)
        materials == validate_numeric(GetNum(data, "materials_cost", J(0)), 0, TRUE)
        rate == validate_numeric(GetNum(data, "tax_rate", J(8)), 0, TRUE)
    IN  IF labor.ok /\ materials.ok /\ rate.ok
        THEN {[labor_cost |-> labor.num, materials_cost |-> materials.num,
               tax_rate |-> rate.num]}
        ELSE {}

\* ---- POST /api/invoices: the required fields and validate_customer_id
api_create_invoice(p, data) ==
    /\ Free(p)
    /\ seq.invoices + InFlight("create_invoice") < MaxInvoices
    /\ LET r == Begin("create_invoice", 0, data)
       IN  IF ~validate_required_fields(data, {"invoice_number", "date", "technician",
                                                "work_performed"}, {"customer_id"})
           THEN Return(p, r, Resp(400, "Missing required fields"))
           ELSE IF None(validate_customer_id(data.customer_id))
           THEN Return(p, r, Resp(404, "Customer not found"))
           ELSE Goto(p, r, "create_invoice_number", NoLoc)
    /\ UNCHANGED <<customers, invoices, appointments, inventory, inventory_usage, seq, quotes>>

\* ---- create invoice: validate_invoice_number, then the costs
api_create_invoice_number(p) ==
    /\ req[p].op = "create_invoice" /\ req[p].pc = "create_invoice_number"
    /\ IF ~validate_invoice_number(req[p].data.invoice_number, 0)
       THEN Return(p, req[p], Resp(409, "Invoice number already exists"))
       ELSE IF None(ValidCosts(req[p].data))
       THEN Return(p, req[p], Resp(400, "must be a valid number"))
       ELSE Goto(p, req[p], "create_invoice_insert", Row(ValidCosts(req[p].data)))
    /\ UNCHANGED <<customers, invoices, appointments, inventory, inventory_usage, seq, quotes>>

\* ---- create invoice: create_invoice
api_create_invoice_insert(p) ==
    /\ req[p].op = "create_invoice" /\ req[p].pc = "create_invoice_insert"
    /\ \E out \in InvoiceIds \cup {IntegrityError} :
          /\ create_invoice(req[p].data.customer_id.num, req[p].data.invoice_number,
                            req[p].loc.labor_cost, out)
          /\ IF out = IntegrityError
             THEN Return(p, req[p], Resp(409, "Database error"))
             ELSE Return(p, [req[p] EXCEPT !.id = out], Resp(201, NULL))
    /\ UNCHANGED <<customers, appointments, inventory, inventory_usage, quotes>>

\* ---- PUT /api/invoices/<id>: get_invoice_by_id and the required fields
api_update_invoice(p, invoice_id, data) ==
    /\ Free(p)
    /\ LET r == Begin("update_invoice", invoice_id, data)
       IN  IF None(get_invoice_by_id(invoice_id))
           THEN Return(p, r, Resp(404, "Invoice not found"))
           ELSE IF ~validate_required_fields(data, {"invoice_number", "date", "technician",
                                                     "work_performed"}, {})
           THEN Return(p, r, Resp(400, "Missing required fields"))
           ELSE Goto(p, r, "update_invoice_number", NoLoc)
    /\ UNCHANGED <<customers, invoices, appointments, inventory, inventory_usage, seq, quotes>>

\* ---- update invoice: validate_invoice_number(exclude_id), then the costs
api_update_invoice_number(p) ==
    /\ req[p].op = "update_invoice" /\ req[p].pc = "update_invoice_number"
    /\ IF ~validate_invoice_number(req[p].data.invoice_number, req[p].id)
       THEN Return(p, req[p], Resp(409, "Invoice number already exists"))
       ELSE IF None(ValidCosts(req[p].data))
       THEN Return(p, req[p], Resp(400, "must be a valid number"))
       ELSE Goto(p, req[p], "update_invoice_write", Row(ValidCosts(req[p].data)))
    /\ UNCHANGED <<customers, invoices, appointments, inventory, inventory_usage, seq, quotes>>

\* ---- update invoice: update_invoice
api_update_invoice_write(p) ==
    /\ req[p].op = "update_invoice" /\ req[p].pc = "update_invoice_write"
    /\ \E out \in {0, 1, IntegrityError} :
          /\ update_invoice(req[p].id, req[p].data.invoice_number, req[p].loc.labor_cost,
                            req[p].loc.materials_cost, req[p].loc.tax_rate, out)
          /\ IF out = IntegrityError
             THEN Return(p, req[p], Resp(409, "Database error"))
             ELSE IF out = 0
             THEN Return(p, req[p], Resp(500, "Failed to update invoice"))
             ELSE Return(p, req[p], Resp(200, NULL))
    /\ UNCHANGED <<customers, appointments, inventory, inventory_usage, seq, quotes>>

\* ---- DELETE /api/invoices/<id>: get_invoice_by_id
api_delete_invoice(p, invoice_id) ==
    /\ Free(p)
    /\ LET r == Begin("delete_invoice", invoice_id, NoData)
       IN  IF None(get_invoice_by_id(invoice_id))
           THEN Return(p, r, Resp(404, "Invoice not found"))
           ELSE Goto(p, r, "delete_invoice_delete", NoLoc)
    /\ UNCHANGED <<customers, invoices, appointments, inventory, inventory_usage, seq, quotes>>

\* ---- delete invoice: delete_invoice
api_delete_invoice_delete(p) ==
    /\ req[p].op = "delete_invoice" /\ req[p].pc = "delete_invoice_delete"
    /\ delete_invoice(req[p].id)
    /\ Return(p, req[p], Resp(200, NULL))
    /\ UNCHANGED <<customers, appointments, inventory, inventory_usage, seq, quotes>>

\* One step of worker p on the invoices of the customers it creates.
InvoiceStep(p) ==
    \/ \E data \in CustomerData : api_create_customer(p, data)
    \/ \E data \in CreateInvoiceData : api_create_invoice(p, data)
    \/ api_create_invoice_number(p)
    \/ api_create_invoice_insert(p)
    \/ \E invoice_id \in InvoiceIds, data \in UpdateInvoiceData :
          api_update_invoice(p, invoice_id, data)
    \/ api_update_invoice_number(p)
    \/ api_update_invoice_write(p)
    \/ \E invoice_id \in InvoiceIds : api_delete_invoice(p, invoice_id)
    \/ api_delete_invoice_delete(p)

NextInvoices == \E p \in Procs : InvoiceStep(p)
SpecInvoices == Init /\ [][NextInvoices]_vars

\* One step of worker p on the customers and their invoices.
BillingStep(p) ==
    \/ InvoiceStep(p)
    \/ \E customer_id \in CustomerIds : api_delete_customer(p, customer_id)
    \/ api_delete_customer_check(p)
    \/ api_delete_customer_delete(p)
    \/ \E invoice_id \in InvoiceIds : api_get_invoice(p, invoice_id)

NextBilling == \E p \in Procs : BillingStep(p)
SpecBilling == Init /\ [][NextBilling]_vars

NextBillingSolo == BillingStep("w1")
SpecBillingSolo == Init /\ [][NextBillingSolo]_vars


\* -----------------------------------------------------------------
\* C4.  Whatever invoice create and update requests have run, in whatever
\* interleaving, no two invoice rows carry the same invoice_number.
C4_InvoiceNumbersUnique ==
    \A i, j \in DOMAIN invoices :
        i # j => invoices[i].invoice_number # invoices[j].invoice_number

\* Two invoices are stored, and a create whose number passed the check of
\* validate_invoice_number was refused by the table when it came to insert.
C4_Witness ==
    /\ Cardinality(DOMAIN invoices) = 2
    /\ \E p \in Procs : /\ req[p].op = "create_invoice" /\ req[p].pc = "done"
                         /\ req[p].resp = Resp(409, "Database error")

\* -----------------------------------------------------------------
\* C5.  A create whose invoice_number is that of a stored invoice is answered
\* 409 and inserts nothing, at the check and at the insert alike; an update
\* that keeps the invoice's own number passes the check and, at the write,
\* succeeds with the number in place.
C5_DuplicateRejectedSelfAllowed ==
    [][\A p \in Procs :
          /\ /\ req[p].op = "create_invoice"
             /\ req[p].pc \in {"create_invoice_number", "create_invoice_insert"}
             /\ InvoiceNumberTaken(req[p].data.invoice_number, 0)
             /\ Steps(p)
             => /\ req'[p].pc = "done" /\ req'[p].resp.status = 409
                /\ invoices' = invoices
          /\ /\ req[p].op = "update_invoice"
             /\ req[p].pc \in {"update_invoice_number", "update_invoice_write"}
             /\ req[p].id \in DOMAIN invoices
             /\ invoices[req[p].id].invoice_number = req[p].data.invoice_number
             /\ ~None(ValidCosts(req[p].data))
             /\ Steps(p)
             => IF req[p].pc = "update_invoice_number"
                THEN req'[p].pc = "update_invoice_write"
                ELSE /\ req'[p].pc = "done" /\ req'[p].resp = Resp(200, NULL)
                     /\ invoices'[req[p].id].invoice_number = req[p].data.invoice_number]_vars

\* A create has been refused for its number while an update that keeps its
\* invoice's number has passed the check and stands before its write.
C5_Witness ==
    /\ \E p \in Procs : /\ req[p].op = "create_invoice" /\ req[p].pc = "done"
                         /\ req[p].resp = Resp(409, "Invoice number already exists")
    /\ \E p \in Procs : /\ req[p].op = "update_invoice" /\ req[p].pc = "update_invoice_write"
                         /\ req[p].id \in DOMAIN invoices
                         /\ invoices[req[p].id].invoice_number = req[p].data.invoice_number

\* -----------------------------------------------------------------
\* C6.  With one request at a time: a delete of a customer that has invoices
\* is answered 409 and leaves the customers as they are; a delete of a
\* customer without invoices goes on to remove the row and answers 200.  So a
\* customer's delete is refused as long as one of its invoices is stored and
\* succeeds once they are gone.
C6_CustomerDeleteGuarded ==
    [][\A p \in Procs :
          /\ req[p].op = "delete_customer" /\ req[p].pc = "delete_customer_check" /\ Steps(p)
             => IF \E i \in DOMAIN invoices : invoices[i].customer_id = req[p].id
                THEN /\ req'[p].pc = "done"
                     /\ req'[p].resp = Resp(409, "Cannot delete customer with existing invoices")
                     /\ customers' = customers
                ELSE req'[p].pc = "delete_customer_delete"
          /\ req[p].op = "delete_customer" /\ req[p].pc = "delete_customer_delete" /\ Steps(p)
             => /\ ~ \E i \in DOMAIN invoices : invoices[i].customer_id = req[p].id
                /\ req[p].id \in DOMAIN customers
                /\ req[p].id \notin DOMAIN customers'
                /\ req'[p].pc = "done" /\ req'[p].resp = Resp(200, NULL)]_vars

\* The customer has been deleted after invoices had been created for it (no
\* invoice is created but for a stored customer) and deleted again.
C6_Witness ==
    /\ req["w1"].op = "delete_customer" /\ req["w1"].pc = "done"
    /\ req["w1"].resp = Resp(200, NULL)
    /\ req["w1"].id \notin DOMAIN customers
    /\ seq.invoices >= 1 /\ invoices = Empty

\* -----------------------------------------------------------------
\* C7.  Every invoice's customer_id is the id of a stored customer, also when
\* a customer's delete and an invoice's create for it are interleaved.
C7_InvoiceCustomerExists ==
    \A i \in DOMAIN invoices : invoices[i].customer_id \in DOMAIN customers

\* -----------------------------------------------------------------
\* C9.  Every read of a stored invoice answers with subtotal = labor_cost +
\* materials_cost, tax = subtotal x tax_rate and total = round(subtotal, 2) +
\* round(tax, 2), from the stored costs.
C9_ReadDerivesTotals ==
    [][\A p \in Procs :
          Free(p) /\ Steps(p) /\ req'[p].op = "get_invoice" /\ req'[p].id \in DOMAIN invoices
          => /\ req'[p].resp.status = 200
             /\ LET invoice == invoices[req'[p].id]
                    costs == req'[p].resp.costs
                IN  /\ costs.subtotal = invoice.labor_cost + invoice.materials_cost
                    /\ costs.tax = Round2(costs.subtotal * invoice.tax_rate)
                    /\ costs.total = costs.subtotal + costs.tax]_vars

\* -----------------------------------------------------------------
\* C10.  An invoice's create stores the labor_cost, materials_cost and
\* tax_rate of the request, with 0 for a materials_cost and 0.08 for a
\* tax_rate that the request leaves out.
C10_CreateStoresCosts ==
    [][\A p \in Procs :
          /\ req[p].op = "create_invoice" /\ req[p].pc = "create_invoice_insert"
          /\ Steps(p) /\ req'[p].resp.status = 201
          => LET invoice == invoices'[req'[p].id]
             IN  /\ invoice.labor_cost = GetNum(req[p].data, "labor_cost", J(0)).num
                 /\ invoice.materials_cost = GetNum(req[p].data, "materials_cost", J(0)).num
                 /\ invoice.tax_rate = GetNum(req[p].data, "tax_rate", J(8)).num]_vars


\* =================================================================
\* Appointments (src/database.py 324-434, src/app.py 1196-1246, 1344-1376)
\* =================================================================
MaxAppointments == 1
AppointmentIds == 1..MaxAppointments

\* validators.validate_time: "':' not in time_string" on the times the model draws
validate_time(time_string) ==
    IF Falsy(time_string) THEN FALSE ELSE time_string \in {"10:00 AM", "14:00"}

\* The bodies POST /api/appointments is given.
AppointmentData ==
    [customer_id : {J(c) : c \in CustomerIds}, appointment_date : {20250115},
     appointment_time : {"10:00 AM"},
     service_type : {Absent}, technician : {Absent}, notes : {Absent}]
    \cup [customer_id : {J(1)}, appointment_date : {20251301, 0}, appointment_time : {"10:00 AM"},
          service_type : {Absent}, technician : {Absent}, notes : {Absent}]
    \cup [customer_id : {J(1)}, appointment_date : {20250115}, appointment_time : {"1000"},
          service_type : {Absent}, technician : {Absent}, notes : {Absent}]

\* database.create_appointment: status 'scheduled'; invoice_id is left NULL,
\* written 0 (no row id is 0).
create_appointment(customer_id, appointment_date, appointment_time, service_type, technician, notes) ==
    /\ appointments' = With(appointments, seq.appointments + 1,
          [id |-> seq.appointments + 1, customer_id |-> customer_id,
           appointment_date |-> appointment_date, appointment_time |-> appointment_time,
           technician |-> technician, service_type |-> service_type, notes |-> notes,
           status |-> "scheduled", invoice_id |-> 0])
    /\ seq' = [seq EXCEPT !.appointments = seq.appointments + 1]

\* database.get_appointment_by_id: appointments JOIN customers, so an
\* appointment whose customer row is gone is not found.
get_appointment_by_id(appointment_id) ==
    {appointments[a] : a \in {b \in DOMAIN appointments \cap {appointment_id} :
                                  appointments[b].customer_id \in DOMAIN customers}}

\* database.link_appointment_to_invoice: one UPDATE ... WHERE id = ?
link_appointment_to_invoice(appointment_id, invoice_id) ==
    appointments' = [a \in DOMAIN appointments |->
                        IF a = appointment_id
                        THEN [appointments[a] EXCEPT !.invoice_id = invoice_id,
                                                     !.status = "completed"]
                        ELSE appointments[a]]

\* api_create_appointment, line 1227:
\* data.get('service_type') or data.get('notes') or 'Service Call'
ServiceType(data) ==
    IF ~Falsy(Get(data, "service_type", NULL)) THEN data.service_type
    ELSE IF ~Falsy(Get(data, "notes", NULL)) THEN data.notes
    ELSE "Service Call"

\* ---- POST /api/appointments
api_create_appointment(p, data) ==
    /\ Free(p)
    /\ seq.appointments < MaxAppointments
    /\ LET r == Begin("create_appointment", 0, data)
       IN  IF \/ ~validate_required_fields(data, {"appointment_time"}, {"customer_id"})
              \/ data.appointment_date = 0
           THEN /\ Return(p, r, Resp(400, "Missing required fields"))
                /\ UNCHANGED <<appointments, seq>>
           ELSE IF None(validate_customer_id(data.customer_id))
           THEN /\ Return(p, r, Resp(404, "Customer not found"))
                /\ UNCHANGED <<appointments, seq>>
           ELSE IF ~validate_date(data.appointment_date)
           THEN /\ Return(p, r, Resp(400, "Invalid date"))
                /\ UNCHANGED <<appointments, seq>>
           ELSE IF ~validate_time(data.appointment_time)
           THEN /\ Return(p, r, Resp(400, "Time must include ':'"))
                /\ UNCHANGED <<appointments, seq>>
           ELSE /\ create_appointment(data.customer_id.num, data.appointment_date,
                                      data.appointment_time, ServiceType(data),
                                      Get(data, "technician", ""), Get(data, "notes", ""))
                /\ Return(p, r, Resp(201, NULL))
    /\ UNCHANGED <<customers, invoices, inventory, inventory_usage, quotes>>

\* The bodies PUT /api/appointments/<id>/link-invoice is given.
LinkData == [invoice_id : {J(i) : i \in 0..MaxInvoices} \cup {JAbsent}]

\* ---- PUT /api/appointments/<id>/link-invoice: the body
api_link_appointment_to_invoice(p, appointment_id, data) ==
    /\ Free(p)
    /\ LET r == Begin("link", appointment_id, data)
       IN  IF FalsyNum(GetNum(data, "invoice_id", JNull))
           THEN Return(p, r, Resp(400, "invoice_id is required"))
           ELSE Goto(p, r, "link_appointment", NoLoc)
    /\ UNCHANGED <<customers, invoices, appointments, inventory, inventory_usage, seq, quotes>>

\* ---- link: get_appointment_by_id
api_link_appointment_to_invoice_appointment(p) ==
    /\ req[p].op = "link" /\ req[p].pc = "link_appointment"
    /\ IF None(get_appointment_by_id(req[p].id))
       THEN Return(p, req[p], Resp(404, "Appointment not found"))
       ELSE Goto(p, req[p], "link_invoice", NoLoc)
    /\ UNCHANGED <<customers, invoices, appointments, inventory, inventory_usage, seq, quotes>>

\* ---- link: get_invoice_by_id
api_link_appointment_to_invoice_invoice(p) ==
    /\ req[p].op = "link" /\ req[p].pc = "link_invoice"
    /\ IF None(get_invoice_by_id(req[p].data.invoice_id.num))
       THEN Return(p, req[p], Resp(404, "Invoice not found"))
       ELSE Goto(p, req[p], "link_write", NoLoc)
    /\ UNCHANGED <<customers, invoices, appointments, inventory, inventory_usage, seq, quotes>>

\* ---- link: link_appointment_to_invoice
api_link_appointment_to_invoice_write(p) ==
    /\ req[p].op = "link" /\ req[p].pc = "link_write"
    /\ link_appointment_to_invoice(req[p].id, req[p].data.invoice_id.num)
    /\ Return(p, req[p], Resp(200, NULL))
    /\ UNCHANGED <<customers, invoices, inventory, inventory_usage, seq, quotes>>

\* One step of worker p on the appointments, the customers they are made for
\* and the invoices they are linked to.
LinkStep(p) ==
    \/ \E data \in CustomerData : api_create_customer(p, data)
    \/ \E customer_id \in CustomerIds : api_delete_customer(p, customer_id)
    \/ api_delete_customer_check(p)
    \/ api_delete_customer_delete(p)
    \/ \E data \in CreateInvoiceData : api_create_invoice(p, data)
    \/ api_create_invoice_number(p)
    \/ api_create_invoice_insert(p)
    \/ \E invoice_id \in InvoiceIds : api_delete_invoice(p, invoice_id)
    \/ api_delete_invoice_delete(p)
    \/ \E data \in AppointmentData : api_create_appointment(p, data)
    \/ \E appointment_id \in AppointmentIds, data \in LinkData :
          api_link_appointment_to_invoice(p, appointment_id, data)
    \/ api_link_appointment_to_invoice_appointment(p)
    \/ api_link_appointment_to_invoice_invoice(p)
    \/ api_link_appointment_to_invoice_write(p)

NextLink == \E p \in Procs : LinkStep(p)
SpecLink == Init /\ [][NextLink]_vars

\* -----------------------------------------------------------------
\* C8.  A link request that names a stored appointment and a stored invoice
\* passes its two lookups and writes, in its one writing step, the
\* invoice_id and the status "completed" to the appointment and nothing else;
\* one that names an invoice that is not stored is answered 404 and leaves
\* the appointments as they are.
C8_LinkSetsInvoiceAndStatus ==
    [][\A p \in Procs :
          /\ /\ req[p].op = "link" /\ req[p].pc = "link_appointment" /\ Steps(p)
             /\ req[p].id \in DOMAIN appointments
             /\ req[p].data.invoice_id.num \in DOMAIN invoices
             => req'[p].pc = "link_invoice"
          /\ /\ req[p].op = "link" /\ req[p].pc = "link_invoice" /\ Steps(p)
             => IF req[p].data.invoice_id.num \in DOMAIN invoices
                THEN req[p].id \in DOMAIN appointments => req'[p].pc = "link_write"
                ELSE /\ req'[p].pc = "done" /\ req'[p].resp = Resp(404, "Invoice not found")
                     /\ appointments' = appointments
          /\ /\ req[p].op = "link" /\ req[p].pc = "link_write" /\ Steps(p)
             /\ req[p].id \in DOMAIN appointments
             => /\ req'[p].pc = "done" /\ req'[p].resp = Resp(200, NULL)
                /\ appointments' = [appointments EXCEPT ![req[p].id] =
                      [@ EXCEPT !.invoice_id = req[p].data.invoice_id.num,
                                !.status = "completed"]]]_vars


\* =================================================================
\* Concurrent adjustments and concurrent usage records of one item
\* =================================================================

\* One step of worker p where, once an item is created, nothing but
\* PUT /api/inventory/<id>/adjust changes it.
AdjustStep(p) ==
    \/ \E data \in ItemData : api_create_inventory_item(p, data, ItemIds)
    \/ \E item_id \in ItemIds, data \in AdjustData : api_adjust_inventory(p, item_id, data)
    \/ api_adjust_inventory_select(p)
    \/ api_adjust_inventory_update(p)
    \/ api_adjust_inventory_reread(p)

NextAdjust == \E p \in Procs : AdjustStep(p)
SpecAdjust == Init /\ [][NextAdjust]_vars

\* One step of worker p where, once an item is created, nothing but
\* POST /api/inventory/usage changes it.
RecordStep(p) ==
    \/ \E data \in ItemData : api_create_inventory_item(p, data, ItemIds)
    \/ \E data \in RecordData({20250115}) : api_record_usage(p, data)
    \/ api_record_usage_select(p)
    \/ api_record_usage_write(p)

NextRecord == \E p \in Procs : RecordStep(p)
SpecRecord == Init /\ [][NextRecord]_vars

\* Worker p takes a step of a request of the given kind: its first step, or a
\* later one.
StepOf(p, op) == Steps(p) /\ (IF Free(p) THEN req'[p].op = op ELSE req[p].op = op)

\* -----------------------------------------------------------------
\* C11.  No adjustment is lost: the write of an adjustment by d leaves the
\* item with d more than it held right before the write, whatever other
\* adjustment ran since this one read the quantity; so two adjustments by d1
\* and d2 that both succeed leave q + d1 + d2.
C11_NoLostAdjustment ==
    [][\A p \in Procs :
          /\ req[p].op = "adjust" /\ req[p].pc = "adjust_update" /\ Steps(p)
          /\ req[p].id \in DOMAIN inventory
          => inventory'[req[p].id].quantity =
                inventory[req[p].id].quantity + req[p].data.quantity_change.num]_vars

\* -----------------------------------------------------------------
\* C12.  The decrement of a usage and its usage row become visible in the
\* same step: a step of a record request on a stored item that adds a usage
\* row also leaves the item with the quantity the request computed, a step
\* that changes the inventory also adds the row, and no other step of the
\* request touches either table.
C12_RecordAppliedWhole ==
    [][\A p \in Procs :
          StepOf(p, "record") /\ req'[p].id \in DOMAIN inventory
          => IF req[p].pc = "record_write"
             THEN /\ DOMAIN inventory_usage' = DOMAIN inventory_usage \cup {seq.inventory_usage + 1}
                  /\ seq.inventory_usage + 1 \notin DOMAIN inventory_usage
                  /\ inventory_usage'[seq.inventory_usage + 1].inventory_id = req[p].id
                  /\ inventory'[req[p].id].quantity = req[p].loc.new_quantity
                  /\ req[p].loc.new_quantity + req[p].data.quantity_used.num >= 1
             ELSE /\ inventory' = inventory
                  /\ inventory_usage' = inventory_usage]_vars

\* A usage has been recorded while the other worker stands between two
\* database calls of its own request, about to read.
C12_Witness ==
    \E p, q \in Procs :
        /\ req[p].op = "record" /\ req[p].pc = "done" /\ req[p].resp.status = 201
        /\ UsageOf(req[p].id) # {}
        /\ req[q].pc \in {"record_select", "adjust_select", "adjust_reread"}
        /\ req[q].id = req[p].id

\* -----------------------------------------------------------------
\* C13.  With nothing but usage records changing an item, what the item holds
\* plus what its usage rows have taken stays what it was created with: no
\* step changes quantity + the sum of quantity_used (so the sum never exceeds
\* the initial quantity, the quantity being never negative).
SumUsed(inventory_id) ==
    LET s[k \in 0..seq.inventory_usage] ==
            IF k = 0 THEN 0
            ELSE s[k - 1] + (IF k \in UsageOf(inventory_id)
                             THEN inventory_usage[k].quantity_used ELSE 0)
    IN  s[seq.inventory_usage]

C13_StockNeverDoubleSpent ==
    [][\A i \in DOMAIN inventory \cap DOMAIN inventory' :
          inventory'[i].quantity + SumUsed(i)' = inventory[i].quantity + SumUsed(i)]_vars


\* =================================================================
\* Appointments: update, status, link
\* =================================================================

\* The bodies PUT /api/appointments/<id> is given: a full one, one without
\* technician and notes, one without service_type, one with no calendar date.
UpdateAppointmentData ==
    {[appointment_date |-> 20250201, appointment_time |-> "14:00", service_type |-> "Repair",
      technician |-> "Sam", notes |-> "Bring ladder"],
     [appointment_date |-> 20250201, appointment_time |-> "14:00", service_type |-> "Repair",
      technician |-> Absent, notes |-> Absent],
     [appointment_date |-> 20250201, appointment_time |-> "14:00", service_type |-> Absent,
      technician |-> "Sam", notes |-> Absent],
     [appointment_date |-> 20250230, appointment_time |-> "14:00", service_type |-> "Repair",
      technician |-> "Sam", notes |-> Absent]}

\* update_appointment that also puts the appointment back to 'scheduled'
update_appointment_rescheduling(appointment_id, appointment_date, appointment_time, technician, service_type, notes, out) ==
    IF appointment_id \notin DOMAIN appointments
    THEN /\ out = FALSE
         /\ UNCHANGED appointments
    ELSE /\ out = TRUE
         /\ appointments' = [appointments EXCEPT ![appointment_id] =
               [@ EXCEPT !.appointment_date = appointment_date,
                         !.appointment_time = appointment_time,
                         !.technician = technician, !.service_type = service_type,
                         !.notes = notes, !.status = "scheduled"]]

\* database.update_appointment: UPDATE appointments SET appointment_date,
\* appointment_time, technician, service_type, notes WHERE id = ?; out is
\* rows_affected > 0.
update_appointment(appointment_id, appointment_date, appointment_time, technician, service_type, notes, out) ==
    IF appointment_id \notin DOMAIN appointments
    THEN /\ out = FALSE
         /\ UNCHANGED appointments
    ELSE /\ out = TRUE
         /\ appointments' = [appointments EXCEPT ![appointment_id] =
               [@ EXCEPT !.appointment_date = appointment_date,
                         !.appointment_time = appointment_time,
                         !.technician = technician, !.service_type = service_type,
                         !.notes = notes]]

\* ---- PUT /api/appointments/<id>: get_appointment_by_id, then the body
api_update_appointment(p, appointment_id, data) ==
    /\ Free(p)
    /\ LET r == Begin("update_appointment", appointment_id, data)
       IN  IF None(get_appointment_by_id(appointment_id))
           THEN Return(p, r, Resp(404, "Appointment not found"))
           ELSE IF \/ ~validate_required_fields(data, {"appointment_time", "service_type"}, {})
                   \/ data.appointment_date = 0
           THEN Return(p, r, Resp(400, "Missing required fields"))
           ELSE IF ~validate_date(data.appointment_date)
           THEN Return(p, r, Resp(400, "Invalid date"))
           ELSE IF ~validate_time(data.appointment_time)
           THEN Return(p, r, Resp(400, "Time must include ':'"))
           ELSE Goto(p, r, "update_appointment_write", NoLoc)
    /\ UNCHANGED <<customers, invoices, appointments, inventory, inventory_usage, seq, quotes>>

\* ---- update: update_appointment
api_update_appointment_write(p) ==
    /\ req[p].op = "update_appointment" /\ req[p].pc = "update_appointment_write"
    /\ \E out \in BOOLEAN :
          /\ update_appointment(req[p].id, req[p].data.appointment_date,
                                req[p].data.appointment_time,
                                Get(req[p].data, "technician", ""), req[p].data.service_type,
                                Get(req[p].data, "notes", ""), out)
          /\ IF out
             THEN Return(p, req[p], Resp(200, NULL))
             ELSE Return(p, req[p], Resp(500, "Failed to update appointment"))
    /\ UNCHANGED <<customers, invoices, inventory, inventory_usage, seq, quotes>>

\* validate_appointment_status that takes whatever status is given
validate_appointment_status_any(status) == status # Absent

\* validators.validate_appointment_status: status in valid_statuses
validate_appointment_status(status) ==
    status \in {"scheduled", "in-progress", "completed", "cancelled"}

\* The bodies PUT /api/appointments/<id>/status is given.
StatusData ==
    [status : {"scheduled", "in-progress", "completed", "cancelled", "Completed", Absent}]

\* update_appointment_status that takes the appointment off its invoice
update_appointment_status_unlinking(appointment_id, status) ==
    appointments' = [a \in DOMAIN appointments |->
                        IF a = appointment_id
                        THEN [appointments[a] EXCEPT !.status = status, !.invoice_id = 0]
                        ELSE appointments[a]]

\* database.update_appointment_status: UPDATE appointments SET status = ?
\* WHERE id = ?
update_appointment_status(appointment_id, status) ==
    appointments' = [a \in DOMAIN appointments |->
                        IF a = appointment_id
                        THEN [appointments[a] EXCEPT !.status = status]
                        ELSE appointments[a]]

\* ---- PUT /api/appointments/<id>/status: the body, then get_appointment_by_id
api_update_appointment_status(p, appointment_id, data) ==
    /\ Free(p)
    /\ LET r == Begin("status_appointment", appointment_id, data)
       IN  IF ~validate_appointment_status(Get(data, "status", NULL))
           THEN Return(p, r, Resp(400, "Status must be one of"))
           ELSE IF None(get_appointment_by_id(appointment_id))
           THEN Return(p, r, Resp(404, "Appointment not found"))
           ELSE Goto(p, r, "status_appointment_write", NoLoc)
    /\ UNCHANGED <<customers, invoices, appointments, inventory, inventory_usage, seq, quotes>>

\* ---- status: update_appointment_status
api_update_appointment_status_write(p) ==
    /\ req[p].op = "status_appointment" /\ req[p].pc = "status_appointment_write"
    /\ update_appointment_status(req[p].id, req[p].data.status)
    /\ Return(p, req[p], Resp(200, NULL))
    /\ UNCHANGED <<customers, invoices, inventory, inventory_usage, seq, quotes>>

\* The one invoice body the appointment routes are exercised with.
LinkedInvoiceData ==
    InvoiceBody({J(1)}, {"INV-100"}, {"Sam"}, {k \in Costs : k.tax_rate = JAbsent})

\* One step of worker p on the appointments of stored customers: they are made,
\* rescheduled with one of the given bodies and moved to the given statuses.
RescheduleStep(p, updates, statuses) ==
    \/ \E data \in CustomerData : api_create_customer(p, data)
    \/ \E data \in AppointmentData : api_create_appointment(p, data)
    \/ \E appointment_id \in AppointmentIds, data \in updates :
          api_update_appointment(p, appointment_id, data)
    \/ api_update_appointment_write(p)
    \/ \E appointment_id \in AppointmentIds, data \in statuses :
          api_update_appointment_status(p, appointment_id, data)
    \/ api_update_appointment_status_write(p)

\* Every body of an update, with status updates to one status and to none.
NextReschedule ==
    \E p \in Procs : RescheduleStep(p, UpdateAppointmentData, [status : {"cancelled", "Completed"}])
SpecReschedule == Init /\ [][NextReschedule]_vars

\* Every body of a status update, with one body of an update.
NextStatus ==
    \E p \in Procs :
        RescheduleStep(p, {d \in UpdateAppointmentData : d.notes = "Bring ladder"}, StatusData)
SpecStatus == Init /\ [][NextStatus]_vars

\* One step of worker p that makes an invoice or links an appointment to one,
\* with one of the given bodies.
LinkingStep(p, links) ==
    \/ \E data \in LinkedInvoiceData : api_create_invoice(p, data)
    \/ api_create_invoice_number(p)
    \/ api_create_invoice_insert(p)
    \/ \E appointment_id \in AppointmentIds, data \in links :
          api_link_appointment_to_invoice(p, appointment_id, data)
    \/ api_link_appointment_to_invoice_appointment(p)
    \/ api_link_appointment_to_invoice_invoice(p)
    \/ api_link_appointment_to_invoice_write(p)

\* Every appointment route that writes, the update and the status update with
\* one body each, the link with the invoice that is made and with none.
NextAppointments ==
    \E p \in Procs :
        \/ RescheduleStep(p, {d \in UpdateAppointmentData : d.notes = "Bring ladder"},
                          [status : {"in-progress"}])
        \/ LinkingStep(p, {d \in LinkData : d.invoice_id \in {J(1), JAbsent}})
SpecAppointments == Init /\ [][NextAppointments]_vars


\* -----------------------------------------------------------------
\* C14.  An appointment is stored with no invoice; a step that changes an
\* appointment's invoice_id is the write of a link request for that
\* appointment and leaves its status 'completed'; no step of an update or of
\* a status update changes any invoice_id.
C14_InvoiceIdSetOnlyByLink ==
    [][/\ \A a \in DOMAIN appointments' \ DOMAIN appointments :
              appointments'[a].invoice_id = 0
       /\ \A a \in DOMAIN appointments \cap DOMAIN appointments' :
              appointments'[a].invoice_id # appointments[a].invoice_id
              => /\ \E p \in Procs : /\ req[p].op = "link" /\ req[p].pc = "link_write"
                                     /\ Steps(p) /\ req[p].id = a
                 /\ appointments'[a].status = "completed"]_vars

\* A linked appointment has since been moved to another status by a status
\* update that answered 200, and still holds its invoice.
C14_Witness ==
    \E p \in Procs :
        /\ req[p].op = "status_appointment" /\ req[p].pc = "done" /\ req[p].resp.status = 200
        /\ req[p].id \in DOMAIN appointments
        /\ appointments[req[p].id].invoice_id # 0
        /\ appointments[req[p].id].status = "in-progress"

\* -----------------------------------------------------------------
\* C15.  The write of an appointment update puts the request's date, time,
\* technician ('' when absent), service type and notes ('' when absent) into
\* the appointment and leaves its every other field, and every other
\* appointment, as it was; no other step of an update request changes the
\* appointments.
Replaced == {"appointment_date", "appointment_time", "technician", "service_type", "notes"}

C17_AppointmentStatusEnumerated ==
    [][/\ \A a \in DOMAIN appointments' \ DOMAIN appointments :
              appointments'[a].status = "scheduled"
       /\ \A a \in DOMAIN appointments' :
              appointments'[a].status \in {"scheduled", "in-progress", "completed", "cancelled"}
       /\ \A p \in Procs :
              /\ Free(p) /\ Steps(p) /\ req'[p].op = "status_appointment"
              /\ req'[p].pc # "done" \/ req'[p].resp.status # 400
              => /\ req'[p].pc = "status_appointment_write" \/ req'[p].resp.status = 404
                 /\ req'[p].pc = "status_appointment_write"
                    => req'[p].data.status \in {"scheduled", "in-progress", "completed", "cancelled"}
       /\ \A p \in Procs :
              /\ Steps(p) /\ req'[p].op = "status_appointment"
              /\ req'[p].pc = "done" /\ req'[p].resp.status = 400
              => appointments' = appointments]_vars

\* A status update was refused with 400 for an appointment that an earlier
\* status update had cancelled.
C17_Witness ==
    \E p \in Procs :
        /\ req[p].op = "status_appointment" /\ req[p].pc = "done" /\ req[p].resp.status = 400
        /\ req[p].id \in DOMAIN appointments
        /\ appointments[req[p].id].status = "cancelled"


\* =================================================================
\* Invoices: the status
\* =================================================================

\* validators.validate_status: status in valid_statuses
validate_status(status, valid_statuses) == status \in valid_statuses

\* The bodies PUT /api/invoices/<id>/status is given.
InvoiceStatusData == [status : {"draft", "sent", "paid", "cancelled", "void", Absent}]

\* update_invoice_status that does not reopen a paid invoice
update_invoice_status_paid_is_final(invoice_id, status) ==
    invoices' = [i \in DOMAIN invoices |->
                    IF i = invoice_id /\ invoices[i].status # "paid"
                    THEN [invoices[i] EXCEPT !.status = status]
                    ELSE invoices[i]]

\* database.update_invoice_status: UPDATE invoices SET status = ? WHERE id = ?
update_invoice_status(invoice_id, status) ==
    invoices' = [i \in DOMAIN invoices |->
                    IF i = invoice_id
                    THEN [invoices[i] EXCEPT !.status = status]
                    ELSE invoices[i]]

\* ---- PUT /api/invoices/<id>/status: the body, then get_invoice_by_id
api_update_invoice_status(p, invoice_id, data) ==
    /\ Free(p)
    /\ LET r == Begin("status_invoice", invoice_id, data)
       IN  IF ~validate_status(Get(data, "status", NULL), {"draft", "sent", "paid", "cancelled"})
           THEN Return(p, r, Resp(400, "Status must be one of"))
           ELSE IF None(get_invoice_by_id(invoice_id))
           THEN Return(p, r, Resp(404, "Invoice not found"))
           ELSE Goto(p, r, "status_invoice_write", NoLoc)
    /\ UNCHANGED <<customers, invoices, appointments, inventory, inventory_usage, seq, quotes>>

\* ---- status: update_invoice_status
api_update_invoice_status_write(p) ==
    /\ req[p].op = "status_invoice" /\ req[p].pc = "status_invoice_write"
    /\ update_invoice_status(req[p].id, req[p].data.status)
    /\ Return(p, req[p], Resp(200, NULL))
    /\ UNCHANGED <<customers, appointments, inventory, inventory_usage, seq, quotes>>

\* The invoice bodies the status route is exercised with.
StatusInvoiceData ==
    InvoiceBody({J(1)}, InvoiceNumbers, {"Sam"}, {k \in Costs : k.tax_rate = JAbsent})

\* One step of worker p on the invoices of a customer and their status.
InvoiceStatusStep(p) ==
    \/ \E data \in CustomerData : api_create_customer(p, data)
    \/ \E customer_id \in CustomerIds : api_delete_customer(p, customer_id)
    \/ api_delete_customer_check(p)
    \/ api_delete_customer_delete(p)
    \/ \E data \in StatusInvoiceData : api_create_invoice(p, data)
    \/ api_create_invoice_number(p)
    \/ api_create_invoice_insert(p)
    \/ \E invoice_id \in InvoiceIds, data \in InvoiceStatusData :
          api_update_invoice_status(p, invoice_id, data)
    \/ api_update_invoice_status_write(p)

NextInvoiceStatus == \E p \in Procs : InvoiceStatusStep(p)
SpecInvoiceStatus == Init /\ [][NextInvoiceStatus]_vars

MaxItems == 2
SkuItemIds == 1..MaxItems

\* The bodies POST /api/inventory and PUT /api/inventory/<id> are given here:
\* without a sku, or with one of two.
SkuItemData ==
    [name : {"Filter"}, category : {"parts"}, unit : {"ea"},
     sku : {Absent, "A-100", "B-200"}, quantity : {JAbsent}]

\* One step of worker p creating and updating items.
SkuStep(p) ==
    \/ \E data \in SkuItemData : api_create_inventory_item(p, data, SkuItemIds)
    \/ \E item_id \in SkuItemIds, data \in SkuItemData : api_update_inventory_item(p, item_id, data)
    \/ api_update_inventory_item_write(p)

NextSku == \E p \in Procs : SkuStep(p)
SpecSku == Init /\ [][NextSku]_vars

\* -----------------------------------------------------------------
\* C18.  The sku is optional and unique only when present: a create is
\* refused as a conflict only when some other item holds a sku, and then
\* nothing changes; the write of an update that carries no sku, or a sku no
\* other item holds, answers 200, and one that carries a sku another item
\* holds answers 409 and changes nothing.
C18_SkuOptionalUniqueWhenPresent ==
    [][\A p \in Procs :
          /\ /\ Free(p) /\ StepOf(p, "create_item") /\ req'[p].resp.status = 409
             => /\ inventory' = inventory
                /\ \E i \in DOMAIN inventory : inventory[i].sku \notin {NULL, ""}
          /\ /\ ~Free(p) /\ StepOf(p, "update_item") /\ req[p].id \in DOMAIN inventory
             => IF /\ req[p].data.sku \notin {Absent, NULL, ""}
                   /\ \E i \in DOMAIN inventory \ {req[p].id} : inventory[i].sku = req[p].data.sku
                THEN req'[p].resp.status = 409 /\ inventory' = inventory
                ELSE req'[p].resp.status = 200]_vars


\* =================================================================
\* Customers: the phone number
\* =================================================================

\* The phone numbers the customer routes are given here: ten digits plain,
\* with dashes, with dots, already formatted; five digits; eleven digits;
\* nine digits and a letter; none.
Phones ==
    {<<"5", "5", "5", "1", "2", "3", "4", "5", "6", "7">>,
     <<"5", "5", "5", "-", "1", "2", "3", "-", "4", "5", "6", "7">>,
     <<"8", "0", "0", ".", "5", "5", "5", ".", "0", "1", "0", "0">>,
     <<"(", "5", "5", "5", ")", " ", "1", "2", "3", "-", "4", "5", "6", "7">>,
     <<"1", "2", "3", "4", "5">>,
     <<"1", "-", "5", "5", "5", "-", "1", "2", "3", "-", "4", "5", "6", "7">>,
     <<"5", "5", "5", "-", "1", "2", "3", "-", "4", "5", "6", "x">>,
     <<>>}

PhoneCustomerData == [name : {"Jane"}, phone : Phones]

\* database.update_customer: UPDATE customers SET name, phone, address
\* WHERE id = ?
update_customer(customer_id, name, phone) ==
    customers' = [c \in DOMAIN customers |->
                     IF c = customer_id
                     THEN [customers[c] EXCEPT !.name = name, !.phone = phone]
                     ELSE customers[c]]

\* ---- PUT /api/customers/<id>: get_customer_by_id
api_update_customer(p, customer_id, data) ==
    /\ Free(p)
    /\ LET r == Begin("update_customer", customer_id, data)
       IN  IF None(get_customer_by_id(customer_id))
           THEN Return(p, r, Resp(404, "Customer not found"))
           ELSE Goto(p, r, "update_customer_write", NoLoc)
    /\ UNCHANGED <<customers, invoices, appointments, inventory, inventory_usage, seq, quotes>>

\* api_update_customer that writes the body before it validates the phone
api_update_customer_writing_first(p) ==
    /\ req[p].op = "update_customer" /\ req[p].pc = "update_customer_write"
    /\ LET data == req[p].data
       IN  IF ~validate_required_fields(data, {"name"}, {}) \/ data.phone = <<>>
           THEN /\ Return(p, req[p], Resp(400, "Missing required fields"))
                /\ UNCHANGED customers
           ELSE /\ update_customer(req[p].id, Strip(data.name), Formatted(Cleaned(data.phone)))
                /\ IF ~validate_phone(data.phone).ok
                   THEN Return(p, req[p], Resp(400, "Phone must be 10 digits"))
                   ELSE Return(p, req[p], Resp(200, NULL))
    /\ UNCHANGED <<invoices, appointments, inventory, inventory_usage, seq, quotes>>

\* ---- update: the body is validated, then update_customer
api_update_customer_write(p) ==
    /\ req[p].op = "update_customer" /\ req[p].pc = "update_customer_write"
    /\ LET data == req[p].data
       IN  IF ~validate_required_fields(data, {"name"}, {}) \/ data.phone = <<>>
           THEN /\ Return(p, req[p], Resp(400, "Missing required fields"))
                /\ UNCHANGED customers
           ELSE IF ~validate_phone(data.phone).ok
           THEN /\ Return(p, req[p], Resp(400, "Phone must be 10 digits"))
                /\ UNCHANGED customers
           ELSE /\ update_customer(req[p].id, Strip(data.name), validate_phone(data.phone).phone)
                /\ Return(p, req[p], Resp(200, NULL))
    /\ UNCHANGED <<invoices, appointments, inventory, inventory_usage, seq, quotes>>

\* One step of worker p creating and updating customers.
PhoneStep(p) ==
    \/ \E data \in PhoneCustomerData : api_create_customer(p, data)
    \/ \E customer_id \in CustomerIds, data \in PhoneCustomerData :
          api_update_customer(p, customer_id, data)
    \/ api_update_customer_write(p)

NextPhone == \E p \in Procs : PhoneStep(p)
SpecPhone == Init /\ [][NextPhone]_vars

\* -----------------------------------------------------------------
\* C19.  Every stored phone reads "(XXX) XXX-XXXX" with ten digits; a create
\* that answers 400 writes nothing; an update whose phone holds exactly ten
\* digits among its characters answers 200 and stores those digits in that
\* form, and any other update answers 400 and writes nothing.
DigitsOf(phone) == {i \in 1..Len(phone) : IsDigit(phone[i])}

WellFormed(phone) ==
    /\ Len(phone) = 14
    /\ phone[1] = "(" /\ phone[5] = ")" /\ phone[6] = " " /\ phone[10] = "-"
    /\ DigitsOf(phone) = {2, 3, 4, 7, 8, 9, 11, 12, 13, 14}

C19_PhoneNormalised ==
    [][/\ \A c \in DOMAIN customers' : WellFormed(customers'[c].phone)
       /\ \A p \in Procs :
              /\ StepOf(p, "create_customer") /\ req'[p].resp.status # 201
                 => customers' = customers
              /\ ~Free(p) /\ StepOf(p, "update_customer")
                 => IF Cardinality(DigitsOf(req[p].data.phone)) = 10
                    THEN /\ req'[p].resp.status = 200
                         /\ \A c \in DOMAIN customers \cap {req[p].id} :
                               /\ WellFormed(customers'[c].phone)
                               /\ Cleaned(customers'[c].phone) = Cleaned(req[p].data.phone)
                    ELSE /\ req'[p].resp.status = 400
                         /\ customers' = customers]_vars

\* An update given 800.555.0100 answered 200 and the customer, created with
\* another number, now holds (800) 555-0100.
C19_Witness ==
    \E p \in Procs :
        /\ req[p].op = "update_customer" /\ req[p].pc = "done" /\ req[p].resp.status = 200
        /\ req[p].id \in DOMAIN customers
        /\ customers[req[p].id].phone = <<"(", "8", "0", "0", ")", " ", "5", "5", "5", "-", "0", "1", "0", "0">>


\* =================================================================
\* Inventory items: category and unit
\* =================================================================

\* The bodies the item routes are given here: categories and units in the
\* enumeration as written, in capitals and with blanks around them, and one
\* of each that is in no enumeration.
CatalogData ==
    [name : {"Filter"}, category : {"parts", " Parts ", "PARTS", "gadgets"},
     unit : {"ea", "EA", " ea ", "dozen"}, sku : {NULL}, quantity : {JAbsent}]

\* One step of worker p creating and updating an item.
CatalogStep(p) ==
    \/ \E data \in CatalogData : api_create_inventory_item(p, data, ItemIds)
    \/ \E item_id \in ItemIds, data \in CatalogData : api_update_inventory_item(p, item_id, data)
    \/ api_update_inventory_item_write(p)

NextCatalog == \E p \in Procs : CatalogStep(p)
SpecCatalog == Init /\ [][NextCatalog]_vars

\* -----------------------------------------------------------------
\* C20.  Every stored item's category and unit are members of their
\* enumerations; an update of a stored item is accepted exactly when its
\* category and its unit, trimmed and lowercased, are members, and then the
\* item holds the trimmed lowercase values; otherwise it answers 400 and
\* changes nothing.
C20_CategoryUnitCanonical ==
    [][/\ \A i \in DOMAIN inventory' :
              /\ inventory'[i].category \in valid_categories
              /\ inventory'[i].unit \in valid_units
       /\ \A p \in Procs :
              /\ ~Free(p) /\ StepOf(p, "update_item") /\ req[p].id \in DOMAIN inventory
              => IF /\ StripLower(req[p].data.category) \in valid_categories
                    /\ StripLower(req[p].data.unit) \in valid_units
                 THEN /\ req'[p].resp.status = 200
                      /\ inventory'[req[p].id].category = StripLower(req[p].data.category)
                      /\ inventory'[req[p].id].unit = StripLower(req[p].data.unit)
                 ELSE /\ req'[p].resp.status = 400
                      /\ inventory' = inventory]_vars


\* =================================================================
\* Customers: the name
\* =================================================================

\* The bodies the customer routes are given here: a name, a name with blanks
\* around it, blanks only, the empty string, none; the phone is good.
NameCustomerData ==
    [name : {"Jane", " Jane ", "   ", "", Absent},
     phone : {<<"5", "5", "5", "1", "2", "3", "4", "5", "6", "7">>}]

\* One step of worker p creating and updating customers.
NameStep(p) ==
    \/ \E data \in NameCustomerData : api_create_customer(p, data)
    \/ \E customer_id \in CustomerIds, data \in NameCustomerData :
          api_update_customer(p, customer_id, data)
    \/ api_update_customer_write(p)

NextName == \E p \in Procs : NameStep(p)
SpecName == Init /\ [][NextName]_vars

\* -----------------------------------------------------------------
\* C24.  Every stored customer has a name that is not empty.
C24_CustomerNameNonEmpty ==
    \A c \in DOMAIN customers : customers[c].name \notin {"", NULL, Absent}


\* =================================================================
\* Inventory items that are deleted while they are used
\* =================================================================

\* One step of worker p where an item is created, adjusted, used and deleted.
ShelfStep(p) ==
    \/ \E data \in ItemData : api_create_inventory_item(p, data, ItemIds)
    \/ \E item_id \in ItemIds : api_delete_inventory_item(p, item_id)
    \/ api_delete_inventory_item_write(p)
    \/ \E item_id \in ItemIds, data \in AdjustData : api_adjust_inventory(p, item_id, data)
    \/ api_adjust_inventory_select(p)
    \/ api_adjust_inventory_update(p)
    \/ api_adjust_inventory_reread(p)
    \/ \E data \in RecordData({20250115}) : api_record_usage(p, data)
    \/ api_record_usage_select(p)
    \/ api_record_usage_write(p)

NextShelf == \E p \in Procs : ShelfStep(p)
SpecShelf == Init /\ [][NextShelf]_vars

\* -----------------------------------------------------------------
\* C25.  A record request is answered "insufficient inventory", and an adjust
\* request "would result in negative inventory", only when the item is stored
\* at that moment and holds less than the request takes.
C25_RejectionNamesTheCause ==
    [][\A p \in Procs :
          /\ /\ StepOf(p, "record") /\ req[p].pc = "record_select"
             /\ req'[p].pc = "done" /\ req'[p].resp.status = 400
             => /\ req[p].id \in DOMAIN inventory
                /\ inventory[req[p].id].quantity < req[p].data.quantity_used.num
          /\ /\ StepOf(p, "adjust") /\ req[p].pc = "adjust_select"
             /\ req'[p].pc = "done" /\ req'[p].resp.status = 400
             => /\ req[p].id \in DOMAIN inventory
                /\ inventory[req[p].id].quantity + req[p].data.quantity_change.num < 0]_vars

\* -----------------------------------------------------------------
\* C29.  Every usage row names an item that is stored, and no step changes or
\* removes a usage row that is stored.
C29_UsageItemExists ==
    [][/\ \A u \in DOMAIN inventory_usage' :
              inventory_usage'[u].inventory_id \in DOMAIN inventory'
       /\ \A u \in DOMAIN inventory_usage :
              u \in DOMAIN inventory_usage' /\ inventory_usage'[u] = inventory_usage[u]]_vars

\* -----------------------------------------------------------------
\* Invoice updates against invoice deletes: one customer, the invoices of
\* that customer, every update body and the unconditional delete.
InvoiceUpdateStep(p) ==
    \/ \E data \in {d \in CustomerData : d.name = "Jane"} : api_create_customer(p, data)
    \/ \E data \in InvoiceBody({J(1)}, InvoiceNumbers, {"Sam"}, Costs) :
          api_create_invoice(p, data)
    \/ api_create_invoice_number(p)
    \/ api_create_invoice_insert(p)
    \/ \E invoice_id \in InvoiceIds, data \in UpdateInvoiceData :
          api_update_invoice(p, invoice_id, data)
    \/ api_update_invoice_number(p)
    \/ api_update_invoice_write(p)
    \/ \E invoice_id \in InvoiceIds : api_delete_invoice(p, invoice_id)
    \/ api_delete_invoice_delete(p)

NextInvoiceUpdate == \E p \in Procs : InvoiceUpdateStep(p)
SpecInvoiceUpdate == Init /\ [][NextInvoiceUpdate]_vars

\* C26.  The write step of an invoice update answers 200 exactly when its
\* UPDATE statement changed a stored row, which then carries the number and
\* the costs of the request; when the invoice was deleted after the
\* existence check the request is answered with a failure and the invoices
\* table is left as it was: no row is created and none is modified.
C26_UpdateReportsAffectedRow ==
    [][\A p \in Procs :
          StepOf(p, "update_invoice") /\ req[p].pc = "update_invoice_write"
          => /\ req'[p].resp.status = 200
                <=> /\ req[p].id \in DOMAIN invoices
                    /\ req[p].id \in DOMAIN invoices'
                    /\ invoices'[req[p].id].invoice_number = req[p].data.invoice_number
                    /\ invoices'[req[p].id].labor_cost = req[p].loc.labor_cost
             /\ req'[p].resp.status # 200 => invoices' = invoices
             /\ req[p].id \notin DOMAIN invoices
                => /\ req'[p].resp.status = 500
                   /\ invoices' = invoices]_vars

\* An update whose invoice was deleted between its existence check and its
\* UPDATE has been answered 500.
C26_Witness ==
    \E p \in Procs :
        /\ req[p].op = "update_invoice" /\ req[p].pc = "done"
        /\ req[p].resp.status = 500
        /\ req[p].id \notin DOMAIN invoices

\* -----------------------------------------------------------------
\* C27.  Whatever appointment creates and customer deletes have run, the
\* customer_id of every stored appointment is the id of a stored customer.
C27_AppointmentCustomerExists ==
    \A a \in DOMAIN appointments : appointments[a].customer_id \in DOMAIN customers

\* C28.  Whatever link requests and invoice deletes have run, every stored
\* appointment whose invoice_id is not NULL names a stored invoice.
C28_AppointmentInvoiceExists ==
    \A a \in DOMAIN appointments :
        appointments[a].invoice_id # 0 => appointments[a].invoice_id \in DOMAIN invoices

\* database.delete_appointment: DELETE FROM appointments WHERE id = ?
delete_appointment(appointment_id) == appointments' = Without(appointments, appointment_id)

\* ---- GET /api/appointments/<id>
api_get_appointment(p, appointment_id) ==
    /\ Free(p)
    /\ LET r == Begin("get_appointment", appointment_id, NoData)
       IN  IF None(get_appointment_by_id(appointment_id))
           THEN Return(p, r, Resp(404, "Appointment not found"))
           ELSE Return(p, r, Resp(200, NULL))
    /\ UNCHANGED <<customers, invoices, appointments, inventory, inventory_usage, seq, quotes>>

\* ---- DELETE /api/appointments/<id>: get_appointment_by_id
api_delete_appointment(p, appointment_id) ==
    /\ Free(p)
    /\ LET r == Begin("delete_appointment", appointment_id, NoData)
       IN  IF None(get_appointment_by_id(appointment_id))
           THEN Return(p, r, Resp(404, "Appointment not found"))
           ELSE Goto(p, r, "delete_appointment_delete", NoLoc)
    /\ UNCHANGED <<customers, invoices, appointments, inventory, inventory_usage, seq, quotes>>

\* ---- delete appointment: delete_appointment
api_delete_appointment_delete(p) ==
    /\ req[p].op = "delete_appointment" /\ req[p].pc = "delete_appointment_delete"
    /\ delete_appointment(req[p].id)
    /\ Return(p, req[p], Resp(200, NULL))
    /\ UNCHANGED <<customers, invoices, inventory, inventory_usage, seq, quotes>>

\* One step of worker p on the appointments of customers that come and go:
\* every appointment route that takes an id, and the customer delete.
VisitStep(p) ==
    \/ RescheduleStep(p, {d \in UpdateAppointmentData : d.notes = "Bring ladder"},
                      [status : {"in-progress"}])
    \/ LinkingStep(p, {d \in LinkData : d.invoice_id = J(1)})
    \/ \E customer_id \in CustomerIds : api_delete_customer(p, customer_id)
    \/ api_delete_customer_check(p)
    \/ api_delete_customer_delete(p)
    \/ \E appointment_id \in AppointmentIds : api_get_appointment(p, appointment_id)
    \/ \E appointment_id \in AppointmentIds : api_delete_appointment(p, appointment_id)
    \/ api_delete_appointment_delete(p)

NextVisit == \E p \in Procs : VisitStep(p)
SpecVisit == Init /\ [][NextVisit]_vars

\* C30.  A get, update, status update, link or delete of an appointment is
\* answered "Appointment not found" only when no appointment with the id of
\* the request is stored: no stored appointment is reported not found.
C30_StoredAppointmentIsFound ==
    [][\A p \in Procs :
          /\ Steps(p)
          /\ req'[p].pc = "done"
          /\ req'[p].op \in {"get_appointment", "update_appointment", "status_appointment",
                             "link", "delete_appointment"}
          /\ req'[p].resp = Resp(404, "Appointment not found")
          => req'[p].id \notin DOMAIN appointments]_vars

\* -----------------------------------------------------------------
\* Every route that creates, updates, sets a status, adjusts or records, each
\* with a body that passes and with bodies that validation refuses.
RejectStep(p) ==
    \/ \E data \in CustomerData : api_create_customer(p, data)
    \/ \E customer_id \in CustomerIds, data \in CustomerData :
          api_update_customer(p, customer_id, data)
    \/ api_update_customer_write(p)
    \/ \E data \in InvoiceBody({J(1)}, {"INV-100"}, {"Sam", Absent},
                               {k \in Costs : k.tax_rate = JAbsent} \cup BadCosts) :
          api_create_invoice(p, data)
    \/ api_create_invoice_number(p)
    \/ api_create_invoice_insert(p)
    \/ \E invoice_id \in InvoiceIds,
          data \in InvoiceBody({JAbsent}, {"INV-100"}, {"Sam", Absent},
                               {k \in Costs : k.tax_rate = JAbsent} \cup BadCosts) :
          api_update_invoice(p, invoice_id, data)
    \/ api_update_invoice_number(p)
    \/ api_update_invoice_write(p)
    \/ \E invoice_id \in InvoiceIds, data \in [status : {"paid", "void", Absent}] :
          api_update_invoice_status(p, invoice_id, data)
    \/ api_update_invoice_status_write(p)
    \/ \E data \in {d \in AppointmentData : d.customer_id = J(1)} : api_create_appointment(p, data)
    \/ \E appointment_id \in AppointmentIds,
          data \in {d \in UpdateAppointmentData : d.technician = "Sam" /\ d.service_type = "Repair"} :
          api_update_appointment(p, appointment_id, data)
    \/ api_update_appointment_write(p)
    \/ \E appointment_id \in AppointmentIds, data \in [status : {"scheduled", "Completed", Absent}] :
          api_update_appointment_status(p, appointment_id, data)
    \/ api_update_appointment_status_write(p)
    \/ \E data \in {d \in CatalogData : <<d.category, d.unit>> \in {<<"gadgets", "ea">>, <<"parts", "dozen">>}}
                   \cup {d \in ItemData : d.quantity \in {J(-1), J(MaxQty)}} :
          api_create_inventory_item(p, data, ItemIds)
    \/ \E item_id \in ItemIds,
          data \in {d \in CatalogData : <<d.category, d.unit>> \in {<<"gadgets", "ea">>, <<"parts", "dozen">>}}
                   \cup {d \in ItemData : d.quantity \in {J(-1), J(MaxQty)}} :
          api_update_inventory_item(p, item_id, data)
    \/ api_update_inventory_item_write(p)
    \/ \E item_id \in ItemIds,
          data \in {d \in AdjustData : d.quantity_change \in {J(-1), JAbsent, JText}} :
          api_adjust_inventory(p, item_id, data)
    \/ api_adjust_inventory_select(p)
    \/ api_adjust_inventory_update(p)
    \/ api_adjust_inventory_reread(p)
    \/ \E data \in {d \in RecordData({20250115, 0}) : d.quantity_used \in {J(0), J(1)}} :
          api_record_usage(p, data)
    \/ api_record_usage_select(p)
    \/ api_record_usage_write(p)

\* One worker: with no other request running, what the tables hold before
\* and after a request differs by that request's own writes alone.
NextReject == RejectStep("w1")
SpecReject == Init /\ [][NextReject]_vars

\* The tables, and the ids they have handed out.
Tables == <<customers, invoices, appointments, inventory, inventory_usage, quotes, seq>>

\* C21.  A step in which a create, update, status update, adjust or record
\* request is answered 400 leaves every table as it was; and a step that
\* changes a table belongs to a request that is not answered 400: it answers
\* 200 or 201 in that step, or it is the UPDATE of an adjust, whose one
\* remaining step reads only and answers 200 or 500.
C21_RejectedRequestWritesNothing ==
    [][\A p \in Procs :
          Steps(p)
          => /\ req'[p].pc = "done" /\ req'[p].resp.status = 400 => Tables' = Tables
             /\ Tables' # Tables
                => \/ req'[p].pc = "done" /\ req'[p].resp.status \in {200, 201}
                   \/ req'[p].op = "adjust" /\ req'[p].pc = "adjust_reread"
             /\ req[p].pc = "adjust_reread" => req'[p].resp.status # 400]_vars

\* With a customer, an invoice, an appointment, an item and a usage row
\* stored, an update of the customer has been refused for its phone.
C21_Witness ==
    /\ customers # Empty /\ invoices # Empty /\ appointments # Empty
    /\ inventory # Empty /\ inventory_usage # Empty
    /\ req["w1"].op = "update_customer" /\ req["w1"].pc = "done"
    /\ req["w1"].resp = Resp(400, "Phone must be 10 digits")

\* =================================================================
\* Quotes (src/app.py 942-1129).  The handlers are in src/app.py; the quotes
\* table and the database functions they import (create_quote,
\* get_quote_by_id, delete_quote, check_quote_has_invoices) are not in
\* src/database.py and are modelled from the specification's description:
\* create returns the new id, get returns the row or nothing, delete removes
\* the row, and a quote "has invoices" while an invoice names it.
\* =================================================================
MaxQuotes == 2
QuoteIds == 1..MaxQuotes

\* The quote an invoice row names.  database.create_invoice has no quote
\* parameter, so the rows it inserts name none (NULL, written 0).
QuoteOf(invoice) == IF "quote_id" \in DOMAIN invoice THEN invoice.quote_id ELSE 0

create_quote(customer_id, title, total_value, status) ==
    /\ quotes' = With(quotes, seq.quotes + 1,
                      [id |-> seq.quotes + 1, customer_id |-> customer_id, title |-> title,
                       total |-> total_value, status |-> status])
    /\ seq' = [seq EXCEPT !.quotes = seq.quotes + 1]

get_quote_by_id(quote_id) == {quotes[q] : q \in DOMAIN quotes \cap {quote_id}}

check_quote_has_invoices(quote_id) ==
    Cardinality({i \in DOMAIN invoices : QuoteOf(invoices[i]) = quote_id}) > 0

delete_quote(quote_id) == quotes' = Without(quotes, quote_id)

\* The bodies POST /api/quotes is given: one that passes for each customer id,
\* and one each with a blank title, no title, a negative total, no total and
\* an unknown status.
QuoteBody(customer_ids, titles, total_values, statuses) ==
    [customer_id : customer_ids, title : titles, total : total_values, status : statuses]

QuoteData ==
    QuoteBody({J(c) : c \in CustomerIds}, {"Furnace"}, {J(45000)}, {Absent})
    \cup QuoteBody({J(1)}, {"   ", Absent}, {J(45000)}, {Absent})
    \cup QuoteBody({J(1)}, {"Furnace"}, {J(-1), JAbsent}, {Absent})
    \cup QuoteBody({J(1)}, {"Furnace"}, {J(45000)}, {"void"})

\* ---- POST /api/quotes: the required fields, validate_customer_id, the
\* total, the status and the title
api_create_quote(p, data) ==
    /\ Free(p)
    /\ seq.quotes + InFlight("create_quote") < MaxQuotes
    /\ LET r == Begin("create_quote", 0, data)
           status == IF Falsy(Get(data, "status", "draft")) THEN "draft"
                     ELSE Get(data, "status", "draft")
       IN  IF ~validate_required_fields(data, {"title"}, {"customer_id"})
           THEN Return(p, r, Resp(400, "Missing required fields"))
           ELSE IF None(validate_customer_id(data.customer_id))
           THEN Return(p, r, Resp(404, "Customer not found"))
           ELSE IF ~validate_numeric(GetNum(data, "total", JNull), 0, FALSE).ok
           THEN Return(p, r, Resp(400, "Total must be at least 0"))
           ELSE IF ~validate_status(status, {"draft", "sent", "accepted", "rejected"})
           THEN Return(p, r, Resp(400, "Status must be one of"))
           ELSE IF Strip(data.title) = ""
           THEN Return(p, r, Resp(400, "Title cannot be empty"))
           ELSE Goto(p, r, "create_quote_insert", [status |-> status])
    /\ UNCHANGED <<customers, invoices, appointments, inventory, inventory_usage, quotes, seq>>

\* ---- create quote: create_quote
api_create_quote_insert(p) ==
    /\ req[p].op = "create_quote" /\ req[p].pc = "create_quote_insert"
    /\ create_quote(req[p].data.customer_id.num, Strip(req[p].data.title),
                    req[p].data.total.num, req[p].loc.status)
    /\ Return(p, [req[p] EXCEPT !.id = seq.quotes + 1], Resp(201, NULL))
    /\ UNCHANGED <<customers, invoices, appointments, inventory, inventory_usage>>

\* ---- DELETE /api/quotes/<id>: get_quote_by_id
api_delete_quote(p, quote_id) ==
    /\ Free(p)
    /\ LET r == Begin("delete_quote", quote_id, NoData)
       IN  IF None(get_quote_by_id(quote_id))
           THEN Return(p, r, Resp(404, "Quote not found"))
           ELSE Goto(p, r, "delete_quote_check", NoLoc)
    /\ UNCHANGED <<customers, invoices, appointments, inventory, inventory_usage, quotes, seq>>

\* api_delete_quote without its guard
api_delete_quote_unguarded(p) ==
    /\ req[p].op = "delete_quote" /\ req[p].pc = "delete_quote_check"
    /\ Goto(p, req[p], "delete_quote_delete", NoLoc)
    /\ UNCHANGED <<customers, invoices, appointments, inventory, inventory_usage, quotes, seq>>

\* ---- delete quote: check_quote_has_invoices
api_delete_quote_check(p) ==
    /\ req[p].op = "delete_quote" /\ req[p].pc = "delete_quote_check"
    /\ IF check_quote_has_invoices(req[p].id)
       THEN Return(p, req[p], Resp(409, "Cannot delete quote with existing invoices"))
       ELSE Goto(p, req[p], "delete_quote_delete", NoLoc)
    /\ UNCHANGED <<customers, invoices, appointments, inventory, inventory_usage, quotes, seq>>

\* ---- delete quote: delete_quote
api_delete_quote_delete(p) ==
    /\ req[p].op = "delete_quote" /\ req[p].pc = "delete_quote_delete"
    /\ delete_quote(req[p].id)
    /\ Return(p, req[p], Resp(200, NULL))
    /\ UNCHANGED <<customers, invoices, appointments, inventory, inventory_usage, seq>>

\* One step of worker p on the quotes of customers that come and go.
QuoteStep(p) ==
    \/ \E data \in {d \in CustomerData : d.name = "Jane"} : api_create_customer(p, data)
    \/ \E customer_id \in CustomerIds : api_delete_customer(p, customer_id)
    \/ api_delete_customer_check(p)
    \/ api_delete_customer_delete(p)
    \/ \E data \in QuoteData : api_create_quote(p, data)
    \/ api_create_quote_insert(p)
    \/ \E quote_id \in QuoteIds : api_delete_quote(p, quote_id)
    \/ api_delete_quote_check(p)
    \/ api_delete_quote_delete(p)

NextQuotes == \E p \in Procs : QuoteStep(p)
SpecQuotes == Init /\ [][NextQuotes]_vars

\* C23.  In every reachable state the customer_id of every stored quote is
\* the id of a stored customer: a customer that a quote names is not deleted.
C23_QuoteCustomerExists ==
    \A q \in DOMAIN quotes : quotes[q].customer_id \in DOMAIN customers

\* -----------------------------------------------------------------
\* A store in which invoices name quotes.  No route of src/app.py writes an
\* invoice's quote, so such a store is drawn, not built: customer 1, the
\* quotes of QuoteIds and the invoices of InvoiceIds, each invoice naming one
\* of the quotes or none.
QuotedInvoiceNumbers == <<"INV-100", "INV-101", "INV-102", "INV-103">>

InitQuoted ==
    /\ customers = With(Empty, 1, [id |-> 1, name |-> "Jane",
                                   phone |-> Formatted(<<"5", "5", "5", "1", "2", "3", "4", "5", "6", "7">>)])
    /\ quotes = [q \in QuoteIds |-> [id |-> q, customer_id |-> 1, title |-> "Furnace",
                                     total |-> 45000, status |-> "draft"]]
    /\ \E named \in [InvoiceIds -> QuoteIds \cup {0}] :
          invoices = [i \in InvoiceIds |->
                         [id |-> i, invoice_number |-> QuotedInvoiceNumbers[i], customer_id |-> 1,
                          labor_cost |-> 10005, materials_cost |-> 0, tax_rate |-> 8,
                          status |-> "draft", quote_id |-> named[i]]]
    /\ appointments = Empty
    /\ inventory = Empty
    /\ inventory_usage = Empty
    /\ seq = [customers |-> 1, invoices |-> MaxInvoices, appointments |-> 0,
              inventory |-> 0, inventory_usage |-> 0, quotes |-> MaxQuotes]
    /\ req = [p \in Procs |-> Idle]

\* One step of worker p deleting quotes and invoices.
QuotedStep(p) ==
    \/ \E quote_id \in QuoteIds : api_delete_quote(p, quote_id)
    \/ api_delete_quote_check(p)
    \/ api_delete_quote_delete(p)
    \/ \E invoice_id \in InvoiceIds : api_delete_invoice(p, invoice_id)
    \/ api_delete_invoice_delete(p)

NextQuoted == \E p \in Procs : QuotedStep(p)
SpecQuoted == InitQuoted /\ [][NextQuoted]_vars

================================================================
